---- MODULE Spec2Model ----
(***************************************************************************)
(* Model of llm-export-importer: the platform adapters (validate / parse), *)
(* the platform detector, and the deduplication / version-chain builder.   *)
(*                                                                         *)
(* JSON values are tagged records [t, v]; a string is the sequence of its  *)
(* byte codes, a number n is <<n>>.  A collection entry and a message are  *)
(* records that carry every property the adapters read.                    *)
(***************************************************************************)
EXTENDS Integers, Sequences, FiniteSets, TLC

(***************************************************************************)
(* Decoded JSON scalars                                                    *)
(***************************************************************************)
Undef == [t |-> "undef", v |-> <<>>]
Str(bytes) == [t |-> "str", v |-> bytes]
Num(n) == [t |-> "num", v |-> <<n>>]

\* typeof x === 'string'
IsString(x) == x.t = "str"

\* JavaScript truthiness of a scalar: undefined, "" and 0 are falsy
Truthy(x) ==
    \/ x.t = "str" /\ x.v # <<>>
    \/ x.t = "num" /\ x.v[1] # 0
    \/ x.t \in {"arr", "obj"}

\* byte codes of the characters the model uses
Ch == [nl |-> 10, sp |-> 32, plus |-> 43, dash |-> 45, dot |-> 46, slash |-> 47, zero |-> 48,
       eq |-> 61, A |-> 65, a |-> 97, b |-> 98, c |-> 99]

IsSpace(c) == c \in {Ch.sp, Ch.nl}

RECURSIVE TrimLeft(_)
TrimLeft(s) == IF s # <<>> /\ IsSpace(Head(s)) THEN TrimLeft(Tail(s)) ELSE s

RECURSIVE TrimRight(_)
TrimRight(s) ==
    IF s # <<>> /\ IsSpace(s[Len(s)]) THEN TrimRight(SubSeq(s, 1, Len(s) - 1)) ELSE s

\* String.prototype.trim
Trim(s) == TrimRight(TrimLeft(s))

\* BaseParser.cleanContent on a string: content?.trim() || ''
cleanContent(x) == IF x.t = "str" THEN Trim(x.v) ELSE <<>>

(***************************************************************************)
(* BaseParser utilities                                                    *)
(***************************************************************************)
RECURSIVE Digits(_)
\* Number.prototype.toString for a non-negative integer
Digits(n) == IF n < 10 THEN <<Ch.zero + n>> ELSE Digits(n \div 10) \o <<Ch.zero + (n % 10)>>

\* the text a template literal `${x}` puts for x
TemplateText(x) ==
    CASE x.t = "str" -> x.v
      [] x.t = "num" -> Digits(x.v[1])
      [] OTHER -> <<117, 110, 100, 101, 102, 105, 110, 101, 100>>  \* "undefined"

\* the character of a base64 sextet; 64 stands for the padding
Base64Char(n) ==
    IF n < 26 THEN Ch.A + n
    ELSE IF n < 52 THEN Ch.a + (n - 26)
    ELSE IF n < 62 THEN Ch.zero + (n - 52)
    ELSE IF n = 62 THEN Ch.plus
    ELSE IF n = 63 THEN Ch.slash
    ELSE Ch.eq

RECURSIVE Sextets(_)
\* the sextets of Buffer.from(s).toString('base64')
Sextets(s) ==
    IF Len(s) = 0 THEN <<>>
    ELSE IF Len(s) = 1 THEN <<s[1] \div 4, (s[1] % 4) * 16, 64, 64>>
    ELSE IF Len(s) = 2
         THEN <<s[1] \div 4, (s[1] % 4) * 16 + (s[2] \div 16), (s[2] % 16) * 4, 64>>
    ELSE <<s[1] \div 4, (s[1] % 4) * 16 + (s[2] \div 16),
           (s[2] % 16) * 4 + (s[3] \div 64), s[3] % 64>> \o Sextets(SubSeq(s, 4, Len(s)))

\* Buffer.from(s).toString('base64')
Base64(s) == [i \in 1..Len(Sextets(s)) |-> Base64Char(Sextets(s)[i])]

\* String.prototype.substring(0, n)
Substring0(s, n) == SubSeq(s, 1, IF Len(s) < n THEN Len(s) ELSE n)

\* length of a generated id
IdLength == 12

\* BaseParser.generateId(title, timestamp)
generateId(title, timestamp) ==
    Substring0(Base64(TemplateText(title) \o <<Ch.dash>> \o TemplateText(timestamp)), IdLength)

\* the wall clock, in epoch seconds, read by new Date() / Date.now()
Clock == [now |-> 9]

IsDigit(c) == c >= Ch.zero /\ c <= Ch.zero + 9

RECURSIVE DigitsValue(_)
DigitsValue(s) == IF s = <<>> THEN 0 ELSE DigitsValue(SubSeq(s, 1, Len(s) - 1)) * 10 + (s[Len(s)] - Ch.zero)

\* new Date(string): a date string is written as its epoch seconds in digits;
\* any other text is an Invalid Date (-1)
DateParse(s) == IF s # <<>> /\ \A i \in 1..Len(s) : IsDigit(s[i]) THEN DigitsValue(s) ELSE -1

\* BaseParser.normalizeTimestamp: the ISO string of an instant is written as its
\* epoch seconds; Num(-1) stands for a number outside the range of Date (such
\* as 1e300); "threw" is the RangeError of toISOString() outside the try block
normalizeTimestamp(x) ==
    IF x.t = "num"
    THEN IF x.v[1] < 0 THEN [threw |-> TRUE, iso |-> 0] ELSE [threw |-> FALSE, iso |-> x.v[1]]
    ELSE IF x.t = "str" /\ DateParse(x.v) >= 0
         THEN [threw |-> FALSE, iso |-> DateParse(x.v)]
         ELSE [threw |-> FALSE, iso |-> Clock.now]

(***************************************************************************)
(* Decoded JSON structures the adapters read                               *)
(***************************************************************************)
\* a property that holds an array (t = "arr") or is absent / not an array
NoArr == [t |-> "undef", items |-> <<>>]
Arr(items) == [t |-> "arr", items |-> items]

\* a message object of any platform, with every property an adapter reads;
\* kind "null" is a JSON null in the messages array.  content.t = "arr" is the
\* content-block array of the current Claude format, v its joined text blocks.
BlankMsg ==
    [kind |-> "obj", role |-> "undef", author |-> "undef", sender |-> "undef",
     content |-> Undef, text |-> Undef, timestamp |-> Undef, created_at |-> Undef,
     uuid |-> Undef]

\* a node of a ChatGPT mapping: node.message, message.author.role,
\* message.content.parts, message.create_time
BlankNode ==
    [hasMessage |-> FALSE, hasContent |-> FALSE, role |-> "undef",
     parts |-> NoArr, create_time |-> Undef]

\* conversation.mapping: absent, or an object whose values are the nodes
NoMapping == [t |-> "undef", nodes |-> <<>>]
Mapping(nodes) == [t |-> "obj", nodes |-> nodes]

\* an entry of a collection (conversation, chat, thread); kind "null" is a JSON
\* null and kind "prim" a number / string / boolean in the collection
BlankEntry ==
    [kind |-> "obj", title |-> Undef, name |-> Undef, id |-> Undef, uuid |-> Undef,
     created_at |-> Undef, create_time |-> Undef, conversation_id |-> Undef,
     chat_id |-> Undef, thread_id |-> Undef, messages |-> NoArr,
     chat_messages |-> NoArr, mapping |-> NoMapping]

\* the decoded export: null, a primitive, an array of entries, or an object
BlankExport ==
    [kind |-> "obj", items |-> <<>>, conversations |-> NoArr, chats |-> NoArr,
     threads |-> NoArr, mapping |-> NoMapping, title |-> Undef, create_time |-> Undef]

\* reading a property of x throws a TypeError exactly when x is null
PropThrows(x) == x.kind = "null"

\* x && typeof x === 'object'
IsObject(x) == x.kind = "obj"

(***************************************************************************)
(* Validation results.  confidence is the rational <<numerator, denominator>>*)
(***************************************************************************)
ValidationResult(isValid, platform, confidence) ==
    [threw |-> FALSE, isValid |-> isValid, platform |-> platform, confidence |-> confidence]

\* validate did not return: a TypeError left it
ValidationThrew ==
    [threw |-> TRUE, isValid |-> FALSE, platform |-> "unknown", confidence |-> <<0, 1>>]

\* a < b and a > b on rationals with positive denominators
RatLess(a, b) == a[1] * b[2] < b[1] * a[2]
RatGreater(a, b) == RatLess(b, a)

\* Array.prototype.some(cb) where cb reads properties of the element: the first
\* element that is null throws, unless an earlier element already satisfied cb
FirstWhere(items, P(_)) ==
    IF \E i \in 1..Len(items) : P(items[i])
    THEN CHOOSE i \in 1..Len(items) : P(items[i]) /\ \A j \in 1..(i - 1) : ~P(items[j])
    ELSE Len(items) + 1

IsNullItem(x) == x.kind = "null"

SomeThrows(items, P(_)) == FirstWhere(items, IsNullItem) < FirstWhere(items, P)
SomeTrue(items, P(_)) == FirstWhere(items, P) < FirstWhere(items, IsNullItem)

\* number of elements of a sequence that satisfy P
CountWhere(items, P(_)) == Cardinality({i \in 1..Len(items) : P(items[i])})

\* Array.prototype.filter
Filter(items, P(_)) == SelectSeq(items, P)

\* Array.prototype.map
Map(items, F(_)) == [i \in 1..Len(items) |-> F(items[i])]

(***************************************************************************)
(* ChatGPTParser.validate                                                  *)
(***************************************************************************)
\* conv.mapping && typeof conv.mapping === 'object' && conv.title
ChatGPTArrayEntryOk(conv) == conv.kind # "null" /\ conv.mapping.t = "obj" /\ Truthy(conv.title)

\* conv.mapping && typeof conv.mapping === 'object'
ChatGPTEntryOk(conv) == conv.kind # "null" /\ conv.mapping.t = "obj"

\* validate without the branch for a top-level array, as the earlier revision of
\* the adapter has it
ChatGPTValidate_NoArrayBranch(data) ==
    IF data.kind \in {"null", "prim"}
    THEN ValidationResult(FALSE, "unknown", <<0, 1>>)
    ELSE IF data.conversations.t = "arr" /\ SomeThrows(data.conversations.items, ChatGPTEntryOk)
    THEN ValidationThrew
    ELSE IF data.conversations.t = "arr" /\ SomeTrue(data.conversations.items, ChatGPTEntryOk)
    THEN ValidationResult(TRUE, "chatgpt", <<95, 100>>)
    ELSE IF data.mapping.t = "obj"
    THEN ValidationResult(TRUE, "chatgpt", <<9, 10>>)
    ELSE IF Truthy(data.title) \/ Truthy(data.create_time)
    THEN ValidationResult(FALSE, "chatgpt", <<3, 10>>)
    ELSE ValidationResult(FALSE, "unknown", <<0, 1>>)

ChatGPTValidate(data) ==
    IF data.kind \in {"null", "prim"}
    THEN ValidationResult(FALSE, "unknown", <<0, 1>>)
    ELSE IF data.kind = "arr" /\ SomeThrows(data.items, ChatGPTArrayEntryOk)
    THEN ValidationThrew
    ELSE IF data.kind = "arr" /\ SomeTrue(data.items, ChatGPTArrayEntryOk)
    THEN ValidationResult(TRUE, "chatgpt", <<95, 100>>)
    ELSE IF data.conversations.t = "arr" /\ SomeThrows(data.conversations.items, ChatGPTEntryOk)
    THEN ValidationThrew
    ELSE IF data.conversations.t = "arr" /\ SomeTrue(data.conversations.items, ChatGPTEntryOk)
    THEN ValidationResult(TRUE, "chatgpt", <<95, 100>>)
    ELSE IF data.mapping.t = "obj"
    THEN ValidationResult(TRUE, "chatgpt", <<9, 10>>)
    ELSE IF Truthy(data.title) \/ Truthy(data.create_time)
    THEN ValidationResult(FALSE, "chatgpt", <<3, 10>>)
    ELSE ValidationResult(FALSE, "unknown", <<0, 1>>)

(***************************************************************************)
(* Collection validation shared by the Claude (legacy), Gemini and         *)
(* Perplexity adapters: count the valid entries, confidence = valid/total  *)
(***************************************************************************)
\* the for-loop over the collection: the else branch reads a property of the
\* entry for the issue text, which throws on a null entry
CollectionValidate(items, Valid(_), platform) ==
    IF \E i \in 1..Len(items) : PropThrows(items[i])
    THEN ValidationThrew
    ELSE IF CountWhere(items, Valid) = 0
    THEN ValidationResult(FALSE, platform, <<2, 10>>)
    ELSE ValidationResult(RatGreater(<<CountWhere(items, Valid), Len(items)>>, <<5, 10>>),
                          platform, <<CountWhere(items, Valid), Len(items)>>)

(***************************************************************************)
(* ClaudeParser                                                            *)
(***************************************************************************)
isValidClaudeMessage(msg) ==
    /\ IsObject(msg)
    /\ msg.role \in {"human", "assistant"}
    /\ IsString(msg.content)
    /\ IsString(msg.timestamp)

isValidClaudeConversation(conv) ==
    /\ IsObject(conv)
    /\ IsString(conv.id)
    /\ IsString(conv.name)
    /\ IsString(conv.created_at)
    /\ conv.messages.t = "arr"
    /\ \A i \in 1..Len(conv.messages.items) : isValidClaudeMessage(conv.messages.items[i])

isValidNewClaudeMessage(msg) ==
    /\ IsObject(msg)
    /\ IsString(msg.uuid)
    /\ msg.sender \in {"human", "assistant"}
    /\ IsString(msg.text)
    /\ msg.content.t = "arr"
    /\ IsString(msg.created_at)

isValidNewClaudeConversation(conv) ==
    /\ IsObject(conv)
    /\ IsString(conv.uuid)
    /\ IsString(conv.name)
    /\ IsString(conv.created_at)
    /\ conv.chat_messages.t = "arr"
    /\ \A i \in 1..Len(conv.chat_messages.items) :
           isValidNewClaudeMessage(conv.chat_messages.items[i])

\* conv.uuid && conv.name && conv.chat_messages && Array.isArray(conv.chat_messages)
ClaudeArrayEntryOk(conv) ==
    conv.kind # "null" /\ Truthy(conv.uuid) /\ Truthy(conv.name) /\ conv.chat_messages.t = "arr"

ClaudeValidate(data) ==
    IF data.kind \in {"null", "prim"}
    THEN ValidationResult(FALSE, "unknown", <<0, 1>>)
    ELSE IF data.kind = "arr" /\ SomeThrows(data.items, ClaudeArrayEntryOk)
    THEN ValidationThrew
    ELSE IF data.kind = "arr" /\ SomeTrue(data.items, ClaudeArrayEntryOk)
    THEN ValidationResult(TRUE, "claude", <<95, 100>>)
    ELSE IF data.conversations.t # "arr"
    THEN ValidationResult(FALSE, "unknown", <<0, 1>>)
    ELSE CollectionValidate(data.conversations.items, isValidClaudeConversation, "claude")

(***************************************************************************)
(* GeminiParser                                                            *)
(***************************************************************************)
isValidGeminiMessage(msg) ==
    /\ IsObject(msg)
    /\ msg.author \in {"user", "model"}
    /\ IsString(msg.text)
    /\ IsString(msg.timestamp)

isValidGeminiChat(chat) ==
    /\ IsObject(chat)
    /\ IsString(chat.title)
    /\ IsString(chat.create_time)
    /\ chat.messages.t = "arr"
    /\ \A i \in 1..Len(chat.messages.items) : isValidGeminiMessage(chat.messages.items[i])

GeminiValidate(data) ==
    IF data.kind \in {"null", "prim"}
    THEN ValidationResult(FALSE, "unknown", <<0, 1>>)
    ELSE IF data.chats.t # "arr"
    THEN ValidationResult(FALSE, "unknown", <<0, 1>>)
    ELSE CollectionValidate(data.chats.items, isValidGeminiChat, "gemini")

(***************************************************************************)
(* PerplexityParser                                                        *)
(***************************************************************************)
isValidPerplexityMessage(msg) ==
    /\ IsObject(msg)
    /\ msg.role \in {"user", "assistant"}
    /\ IsString(msg.content)
    /\ IsString(msg.created_at)

isValidPerplexityThread(thread) ==
    /\ IsObject(thread)
    /\ IsString(thread.title)
    /\ IsString(thread.created_at)
    /\ thread.messages.t = "arr"
    /\ \A i \in 1..Len(thread.messages.items) :
           isValidPerplexityMessage(thread.messages.items[i])

PerplexityValidate(data) ==
    IF data.kind \in {"null", "prim"}
    THEN ValidationResult(FALSE, "unknown", <<0, 1>>)
    ELSE IF data.threads.t # "arr"
    THEN ValidationResult(FALSE, "unknown", <<0, 1>>)
    ELSE CollectionValidate(data.threads.items, isValidPerplexityThread, "perplexity")

(***************************************************************************)
(* Normalized conversations and parse results                              *)
(***************************************************************************)
Message(role, content, timestamp) ==
    [role |-> role, content |-> content, timestamp |-> timestamp]

Conversation(id, title, messages, platform) ==
    [id |-> id, title |-> title, messages |-> messages, platform |-> platform]

ParseResult(conversations, total) ==
    [threw |-> FALSE, conversations |-> conversations, totalConversations |-> total]

\* parse did not return: it threw
ParseThrew == [threw |-> TRUE, conversations |-> <<>>, totalConversations |-> 0]

\* a filter that lets every conversation through
HasMessages_KeepsEmpty(conv) == Len(conv.messages) >= 0

\* conv => conv.messages.length > 0
HasMessages(conv) == Len(conv.messages) > 0

\* title || fallback
TitleOr(title, fallback) == IF Truthy(title) THEN title.v ELSE fallback

\* the default titles, as opaque one-byte texts
Untitled == <<63>>

(***************************************************************************)
(* GeminiParser.parse                                                      *)
(***************************************************************************)
GeminiRole(author) == IF author = "model" THEN "model" ELSE "user"

GeminiMessage(msg) ==
    Message(GeminiRole(msg.author), cleanContent(msg.text), normalizeTimestamp(msg.timestamp).iso)

parseChat(chat) ==
    Conversation(IF Truthy(chat.chat_id) THEN chat.chat_id.v
                 ELSE generateId(chat.title, chat.create_time),
                 TitleOr(chat.title, Untitled),
                 Map(chat.messages.items, GeminiMessage),
                 "gemini")

GeminiParseValid(data) ==
    Filter(Map(Filter(data.chats.items, isValidGeminiChat), parseChat), HasMessages)

GeminiParse(data) ==
    IF GeminiValidate(data).threw \/ ~GeminiValidate(data).isValid
    THEN ParseThrew
    ELSE ParseResult(GeminiParseValid(data), Len(GeminiParseValid(data)))

(***************************************************************************)
(* PerplexityParser.parse                                                  *)
(***************************************************************************)
PerplexityRole(role) == IF role = "assistant" THEN "assistant" ELSE "user"

PerplexityMessage(msg) ==
    Message(PerplexityRole(msg.role), cleanContent(msg.content),
            normalizeTimestamp(msg.created_at).iso)

parseThread(thread) ==
    Conversation(IF Truthy(thread.thread_id) THEN thread.thread_id.v
                 ELSE generateId(thread.title, thread.created_at),
                 TitleOr(thread.title, Untitled),
                 Map(thread.messages.items, PerplexityMessage),
                 "perplexity")

PerplexityParseValid(data) ==
    Filter(Map(Filter(data.threads.items, isValidPerplexityThread), parseThread), HasMessages)

PerplexityParse(data) ==
    IF PerplexityValidate(data).threw \/ ~PerplexityValidate(data).isValid
    THEN ParseThrew
    ELSE ParseResult(PerplexityParseValid(data), Len(PerplexityParseValid(data)))

(***************************************************************************)
(* ClaudeParser.parse                                                      *)
(***************************************************************************)
ClaudeRole(role) ==
    IF role = "human" THEN "human" ELSE IF role = "assistant" THEN "assistant" ELSE "user"

ClaudeMessage(msg) ==
    Message(ClaudeRole(msg.role), cleanContent(msg.content), normalizeTimestamp(msg.timestamp).iso)

ClaudeParseConversation(conversation) ==
    Conversation(conversation.id.v, TitleOr(conversation.name, Untitled),
                 Map(conversation.messages.items, ClaudeMessage), "claude")

\* text if it is not blank, else the joined text blocks of the content array
extractNewMessageContent(msg) ==
    IF Trim(msg.text.v) # <<>> THEN cleanContent(msg.text) ELSE Trim(msg.content.v)

NewClaudeMessage(msg) ==
    Message(ClaudeRole(msg.sender), extractNewMessageContent(msg),
            normalizeTimestamp(msg.created_at).iso)

parseNewConversation(conversation) ==
    Conversation(conversation.uuid.v, TitleOr(conversation.name, Untitled),
                 Map(conversation.chat_messages.items, NewClaudeMessage), "claude")

ClaudeParseValid(data) ==
    IF data.kind = "arr"
    THEN Filter(Map(Filter(data.items, isValidNewClaudeConversation), parseNewConversation),
                HasMessages)
    ELSE Filter(Map(Filter(data.conversations.items, isValidClaudeConversation),
                    ClaudeParseConversation), HasMessages)

ClaudeParse(data) ==
    IF ClaudeValidate(data).threw \/ ~ClaudeValidate(data).isValid
    THEN ParseThrew
    ELSE ParseResult(ClaudeParseValid(data), Len(ClaudeParseValid(data)))

(***************************************************************************)
(* ChatGPTParser.parse                                                     *)
(***************************************************************************)
\* An element of message.content.parts.  t = "str" is a string part; the object
\* parts are t = "text" (part.text is the string v), "content" (no text,
\* part.content is the string v), "document" (part.content is an object),
\* "scalar" (part.content is a truthy number or boolean) and "attachment"
\* (neither text nor content); any other t is a number, boolean or null part.
TextPart(bytes) == [t |-> "text", v |-> bytes]
ContentPart(bytes) == [t |-> "content", v |-> bytes]
DocumentPart == [t |-> "document", v |-> <<>>]
ScalarPart == [t |-> "scalar", v |-> <<>>]
AttachmentPart == [t |-> "attachment", v |-> <<>>]

\* the bracketed texts cleanContentParts writes for a document and for an
\* attachment, as opaque texts "[D]" and "[A]"
Placeholder == [document |-> <<91, 68, 93>>, attachment |-> <<91, 65, 93>>]

\* the callback of parts.some(...) in extractMessagesFromMapping
PartHasContent(part) ==
    CASE part.t \in {"str", "text", "content"} -> Trim(part.v) # <<>>
      [] part.t \in {"document", "scalar", "attachment"} -> TRUE
      [] OTHER -> FALSE

\* the condition under which extractMessagesFromMapping keeps a node's message
NodeKept(node) ==
    /\ node.hasMessage
    /\ node.hasContent
    /\ node.parts.t = "arr"
    /\ Len(node.parts.items) > 0
    /\ node.role # "undef"
    /\ \E i \in 1..Len(node.parts.items) : PartHasContent(node.parts.items[i])

\* a.create_time || 0
SortKey(node) == IF Truthy(node.create_time) /\ node.create_time.t = "num"
                 THEN node.create_time.v[1] ELSE 0

RECURSIVE InsertByTime(_, _)
InsertByTime(sorted, node) ==
    IF sorted = <<>> THEN <<node>>
    ELSE IF SortKey(sorted[Len(sorted)]) <= SortKey(node) THEN Append(sorted, node)
    ELSE Append(InsertByTime(SubSeq(sorted, 1, Len(sorted) - 1), node), sorted[Len(sorted)])

RECURSIVE SortByTime(_)
\* messages.sort((a, b) => (a.create_time || 0) - (b.create_time || 0)), a stable sort
SortByTime(nodes) ==
    IF nodes = <<>> THEN <<>>
    ELSE InsertByTime(SortByTime(SubSeq(nodes, 1, Len(nodes) - 1)), nodes[Len(nodes)])

extractMessagesFromMapping(mapping) == SortByTime(Filter(mapping.nodes, NodeKept))

ChatGPTRole(role) == IF role \in {"assistant", "system"} THEN "assistant" ELSE "user"

RECURSIVE JoinLines(_)
\* parts.join('\n') over the string parts
JoinLines(parts) ==
    IF parts = <<>> THEN <<>>
    ELSE IF Len(parts) = 1 THEN parts[1].v
    ELSE parts[1].v \o <<Ch.nl>> \o JoinLines(Tail(parts))

\* what the loop of cleanContentParts pushes for one part: nothing for a part
\* whose content is neither a string nor an object, and nothing for a primitive
PushedText(part) ==
    CASE part.t \in {"str", "text", "content"} -> <<Str(part.v)>>
      [] part.t = "document" -> <<Str(Placeholder.document)>>
      [] part.t = "attachment" -> <<Str(Placeholder.attachment)>>
      [] OTHER -> <<>>

RECURSIVE contentParts(_)
contentParts(parts) ==
    IF parts = <<>> THEN <<>> ELSE PushedText(Head(parts)) \o contentParts(Tail(parts))

cleanContentParts(parts) == Trim(JoinLines(contentParts(parts)))

\* msg.create_time || Date.now() / 1000
TimeOrNow(t) == IF Truthy(t) THEN t ELSE Num(Clock.now)

ChatGPTMessage(node) ==
    Message(ChatGPTRole(node.role), cleanContentParts(node.parts.items),
            normalizeTimestamp(TimeOrNow(node.create_time)).iso)

\* parseConversation throws a TypeError: on a null entry, on an absent mapping
\* (Object.entries(undefined)), on create_time.toString() of an absent
\* create_time when there is no conversation_id, or when a message time has no Date
parseConversationThrows(conversation) ==
    \/ conversation.kind = "null"
    \/ conversation.mapping.t = "undef"
    \/ ~Truthy(conversation.conversation_id) /\ conversation.create_time.t = "undef"
    \/ \E i \in 1..Len(conversation.mapping.nodes) :
          /\ NodeKept(conversation.mapping.nodes[i])
          /\ normalizeTimestamp(TimeOrNow(conversation.mapping.nodes[i].create_time)).threw

ChatGPTParseConversation(conversation) ==
    Conversation(IF Truthy(conversation.conversation_id) THEN conversation.conversation_id.v
                 ELSE generateId(conversation.title, conversation.create_time),
                 TitleOr(conversation.title, Untitled),
                 Map(extractMessagesFromMapping(conversation.mapping), ChatGPTMessage),
                 "chatgpt")

\* the legacy single conversation built by parse from {title, create_time, mapping}
SingleConversation(data) ==
    [BlankEntry EXCEPT !.title = Str(TitleOr(data.title, Untitled)),
                       !.create_time = TimeOrNow(data.create_time),
                       !.mapping = data.mapping]

\* the entries parse hands to parseConversation
ChatGPTEntries(data) ==
    IF data.kind = "arr" THEN data.items
    ELSE IF data.conversations.t = "arr" THEN data.conversations.items
    ELSE <<SingleConversation(data)>>

ChatGPTParse(data) ==
    IF data.kind \in {"null", "prim"}
    THEN ParseThrew
    ELSE IF data.kind = "obj" /\ data.conversations.t # "arr" /\ data.mapping.t = "undef"
    THEN ParseThrew
    ELSE IF \E i \in 1..Len(ChatGPTEntries(data)) : parseConversationThrows(ChatGPTEntries(data)[i])
    THEN ParseThrew
    ELSE ParseResult(Filter(Map(ChatGPTEntries(data), ChatGPTParseConversation), HasMessages),
                     Len(ChatGPTEntries(data)))

(***************************************************************************)
(* The parser registry and platform detection                              *)
(***************************************************************************)
\* the registry with Claude registered ahead of ChatGPT
PARSERS_ClaudeFirst == <<"claude", "chatgpt", "gemini", "perplexity">>

\* const PARSERS = [ChatGPT, Claude, Gemini, Perplexity]
PARSERS == <<"chatgpt", "claude", "gemini", "perplexity">>

\* the adapter classes a caller can construct
AdapterClasses == {"chatgpt", "claude", "gemini", "perplexity"}

\* parser.validate(data)
Validate(p, data) ==
    CASE p = "chatgpt" -> ChatGPTValidate(data)
      [] p = "claude" -> ClaudeValidate(data)
      [] p = "gemini" -> GeminiValidate(data)
      [] OTHER -> PerplexityValidate(data)

\* parser.parse(data)
Parse(p, data) ==
    CASE p = "chatgpt" -> ChatGPTParse(data)
      [] p = "claude" -> ClaudeParse(data)
      [] p = "gemini" -> GeminiParse(data)
      [] OTHER -> PerplexityParse(data)

\* result.isValid && result.confidence > 0.7
ClearsThreshold(result) == result.isValid /\ RatGreater(result.confidence, <<7, 10>>)

\* BaseParser.detectPlatform: the structural sniff; data.mapping on null throws
BaseDetectPlatform(data) ==
    IF data.kind = "null" THEN ValidationThrew
    ELSE IF data.kind = "obj" /\ data.mapping.t = "obj"
    THEN ValidationResult(TRUE, "chatgpt", <<9, 10>>)
    ELSE IF data.kind = "obj" /\ data.conversations.t = "arr"
    THEN ValidationResult(TRUE, "claude", <<9, 10>>)
    ELSE IF data.kind = "obj" /\ data.chats.t = "arr"
    THEN ValidationResult(TRUE, "gemini", <<9, 10>>)
    ELSE IF data.kind = "obj" /\ data.threads.t = "arr"
    THEN ValidationResult(TRUE, "perplexity", <<9, 10>>)
    ELSE ValidationResult(FALSE, "unknown", <<0, 1>>)

\* detectPlatform of the registry: the first adapter of PARSERS, from position
\* i on, whose validation clears the threshold; BaseParser.detectPlatform when
\* none does; a TypeError of a validate leaves it
RECURSIVE detectPlatformFrom(_, _)
detectPlatformFrom(data, i) ==
    IF i > Len(PARSERS) THEN BaseDetectPlatform(data)
    ELSE IF Validate(PARSERS[i], data).threw THEN ValidationThrew
    ELSE IF ClearsThreshold(Validate(PARSERS[i], data)) THEN Validate(PARSERS[i], data)
    ELSE detectPlatformFrom(data, i + 1)

detectPlatform(data) == detectPlatformFrom(data, 1)

\* the outcome of the key tests of loadExportFile: the adapter chosen, or a
\* TypeError of the `in` operator, or the 'Unknown export format' error
Sniffed(platform) == [threw |-> FALSE, platform |-> platform]
SniffThrew == [threw |-> TRUE, platform |-> "none"]

\* the if / else-if chain of loadExportFile: 'mapping' in data[0], 'chat_messages'
\* in data[0], 'conversations' in data, 'mapping' in data, 'chats', 'threads'
sniffPlatform(data) ==
    IF data.kind \in {"null", "prim"} THEN SniffThrew
    ELSE IF data.kind = "arr"
    THEN IF Len(data.items) = 0 THEN SniffThrew
         ELSE IF data.items[1].kind # "obj" THEN SniffThrew
         ELSE IF data.items[1].mapping.t # "undef" THEN Sniffed("chatgpt")
         ELSE IF data.items[1].chat_messages.t # "undef" THEN Sniffed("claude")
         ELSE SniffThrew
    ELSE IF data.conversations.t = "arr" THEN Sniffed("claude")
    ELSE IF data.mapping.t # "undef" THEN Sniffed("chatgpt")
    ELSE IF data.chats.t # "undef" THEN Sniffed("gemini")
    ELSE IF data.threads.t # "undef" THEN Sniffed("perplexity")
    ELSE SniffThrew

(***************************************************************************)
(* Exports the model feeds to the adapters                                 *)
(***************************************************************************)
\* largest number of entries in a collection
MaxEntries == 3

\* texts: two titles that agree on their first nine bytes, and a short one
Txt ==
    [longA |-> <<97, 97, 97, 97, 97, 97, 97, 97, 97, 97>>,
     longB |-> <<97, 97, 97, 97, 97, 97, 97, 97, 97, 98>>,
     short |-> <<98>>, blank |-> <<32>>, day1 |-> <<49>>, day2 |-> <<50>>]

GeminiMsg ==
    [BlankMsg EXCEPT !.author = "user", !.text = Str(Txt.short), !.timestamp = Str(Txt.day1)]

ClaudeMsg ==
    [BlankMsg EXCEPT !.role = "human", !.content = Str(Txt.short), !.timestamp = Str(Txt.day1)]

NewClaudeMsg ==
    [BlankMsg EXCEPT !.uuid = Str(Txt.short), !.sender = "assistant", !.text = Str(Txt.short),
                     !.content = [t |-> "arr", v |-> Txt.short], !.created_at = Str(Txt.day1)]

PerplexityMsg ==
    [BlankMsg EXCEPT !.role = "user", !.content = Str(Txt.short), !.created_at = Str(Txt.day1)]

MessageNode(role, text, time) ==
    [hasMessage |-> TRUE, hasContent |-> TRUE, role |-> role,
     parts |-> Arr(<<Str(text)>>), create_time |-> time]

GeminiChat(title, time, msgs, chatId) ==
    [BlankEntry EXCEPT !.title = Str(title), !.create_time = Str(time),
                       !.messages = Arr(msgs), !.chat_id = chatId]

ClaudeConv(id, msgs) ==
    [BlankEntry EXCEPT !.id = Str(id), !.name = Str(Txt.short), !.created_at = Str(Txt.day1),
                       !.messages = Arr(msgs)]

NewClaudeConv(uuid, msgs) ==
    [BlankEntry EXCEPT !.uuid = Str(uuid), !.name = Str(Txt.short),
                       !.created_at = Str(Txt.day1), !.chat_messages = Arr(msgs)]

PerplexityThread(title, time, msgs, threadId) ==
    [BlankEntry EXCEPT !.title = Str(title), !.created_at = Str(time),
                       !.messages = Arr(msgs), !.thread_id = threadId]

ChatGPTConv(title, time, nodes, convId) ==
    [BlankEntry EXCEPT !.title = Str(title), !.create_time = time,
                       !.mapping = Mapping(nodes), !.conversation_id = convId]

\* entries no adapter accepts: a JSON null, a primitive, an empty object
Malformed ==
    {[BlankEntry EXCEPT !.kind = "null"], [BlankEntry EXCEPT !.kind = "prim"], BlankEntry}

GeminiEntries ==
    {GeminiChat(Txt.longA, Txt.day1, <<GeminiMsg>>, Undef),
     GeminiChat(Txt.longB, Txt.day2, <<GeminiMsg>>, Undef),
     GeminiChat(Txt.short, Txt.day1, <<GeminiMsg, GeminiMsg>>, Str(Txt.short)),
     GeminiChat(Txt.short, Txt.day2, <<>>, Undef)}

PerplexityEntries ==
    {PerplexityThread(Txt.longA, Txt.day1, <<PerplexityMsg>>, Undef),
     PerplexityThread(Txt.longB, Txt.day1, <<PerplexityMsg>>, Undef),
     PerplexityThread(Txt.short, Txt.day1, <<>>, Str(Txt.short))}

ClaudeEntries ==
    {ClaudeConv(Txt.longA, <<ClaudeMsg>>),
     ClaudeConv(Txt.short, <<ClaudeMsg, ClaudeMsg>>),
     ClaudeConv(Txt.longB, <<>>)}

NewClaudeEntries ==
    {NewClaudeConv(Txt.longA, <<NewClaudeMsg>>),
     NewClaudeConv(Txt.short, <<>>)}

ChatGPTEntrySet ==
    {ChatGPTConv(Txt.longA, Num(1), <<MessageNode("user", Txt.short, Num(2)),
                                      MessageNode("assistant", Txt.short, Num(1))>>, Undef),
     ChatGPTConv(Txt.short, Num(2), <<MessageNode("user", Txt.short, Num(1))>>, Str(Txt.short)),
     ChatGPTConv(Txt.short, Num(1), <<MessageNode("user", Txt.blank, Num(1)), BlankNode>>, Undef)}

\* all sequences of at most MaxEntries elements of S
SeqsUpTo(S) == UNION {[1..n -> S] : n \in 0..MaxEntries}

ArrayExports ==
    {[BlankExport EXCEPT !.kind = "arr", !.items = items] :
        items \in SeqsUpTo(ChatGPTEntrySet \cup NewClaudeEntries \cup Malformed)}

ConversationsExports ==
    {[BlankExport EXCEPT !.conversations = Arr(items)] :
        items \in SeqsUpTo(ClaudeEntries \cup Malformed
                            \cup {ChatGPTConv(Txt.short, Num(2),
                                      <<MessageNode("user", Txt.short, Num(1))>>, Undef)})}

ChatsExports ==
    {[BlankExport EXCEPT !.chats = Arr(items)] : items \in SeqsUpTo(GeminiEntries \cup Malformed)}

ThreadsExports ==
    {[BlankExport EXCEPT !.threads = Arr(items)] :
        items \in SeqsUpTo(PerplexityEntries \cup Malformed)}

\* null, a primitive, {}, {title}, the legacy single ChatGPT conversation, and
\* objects that carry the keys of two platforms
OtherExports ==
    {[BlankExport EXCEPT !.kind = "null"], [BlankExport EXCEPT !.kind = "prim"], BlankExport,
     [BlankExport EXCEPT !.title = Str(Txt.short)],
     [BlankExport EXCEPT !.title = Str(Txt.short), !.create_time = Num(1),
                         !.mapping = Mapping(<<MessageNode("user", Txt.short, Num(1))>>)],
     [BlankExport EXCEPT !.mapping = Mapping(<<>>)],
     [BlankExport EXCEPT !.mapping = Mapping(<<MessageNode("user", Txt.short, Num(1))>>),
                         !.conversations = Arr(<<ClaudeConv(Txt.longA, <<ClaudeMsg>>)>>)],
     [BlankExport EXCEPT !.mapping = Mapping(<<MessageNode("user", Txt.short, Num(1))>>),
                         !.conversations = Arr(<<>>)],
     [BlankExport EXCEPT !.mapping = Mapping(<<MessageNode("user", Txt.short, Num(1))>>),
                         !.chats = Arr(<<GeminiChat(Txt.short, Txt.day1, <<GeminiMsg>>, Undef)>>)],
     [BlankExport EXCEPT !.chats = Arr(<<GeminiChat(Txt.short, Txt.day1, <<GeminiMsg>>, Undef)>>),
                         !.threads = Arr(<<PerplexityThread(Txt.short, Txt.day1,
                                                            <<PerplexityMsg>>, Undef)>>)]}

\* largest number of nodes in the mapping of a single-conversation export
MaxNodes == 3

\* a node whose message has the given parts
PartsNode(parts, time) ==
    [hasMessage |-> TRUE, hasContent |-> TRUE, role |-> "user",
     parts |-> Arr(parts), create_time |-> time]

\* nodes of a mapping: messages with a creation time, one without, one whose
\* creation time is outside the range of Date, a whitespace-only message, a
\* message whose only part is an object with a numeric content, an attachment,
\* and a node without a message
MappingNodes ==
    {MessageNode("user", Txt.short, Num(1)),
     MessageNode("assistant", Txt.longA, Num(2)),
     MessageNode("user", Txt.longB, Undef),
     MessageNode("user", Txt.short, Num(-1)),
     PartsNode(<<Str(Txt.blank)>>, Num(2)),
     PartsNode(<<ScalarPart>>, Num(1)),
     PartsNode(<<AttachmentPart, TextPart(Txt.short)>>, Num(2)),
     BlankNode}

\* the single-conversation exports {title, create_time, mapping}
MappingExports ==
    {[BlankExport EXCEPT !.title = Str(Txt.short), !.create_time = Num(1),
                         !.mapping = Mapping(nodes)] :
        nodes \in UNION {[1..n -> MappingNodes] : n \in 1..MaxNodes}}

Exports ==
    ArrayExports \cup ConversationsExports \cup ChatsExports \cup ThreadsExports
        \cup OtherExports \cup MappingExports

(***************************************************************************)
(* The import state machine: one export is loaded, then either the detector*)
(* runs the adapters' validate in registry order and parseExport parses    *)
(* with the adapter found, or one adapter is used directly (validate, then *)
(* parse), as the per-platform parse functions do.                         *)
(***************************************************************************)
VARIABLES
    raw,         \* the decoded export
    pc,          \* "loaded", "detecting", "detected", "validated", "failed", "done",
                 \* "simple"
    idx,         \* detectPlatform's position in PARSERS
    tried,       \* the adapters whose validate has run, in call order
    validation,  \* the last validation result
    parser,      \* the adapter that validated directly / that parses
    result       \* the parse result

importVars == <<raw, pc, idx, tried, validation, parser, result>>

NoValidation == ValidationResult(FALSE, "none", <<0, 1>>)
NoResult == [threw |-> FALSE, conversations |-> <<>>, totalConversations |-> -1]

ImportInit ==
    /\ raw \in Exports
    /\ pc = "loaded"
    /\ idx = 1
    /\ tried = <<>>
    /\ validation = NoValidation
    /\ parser = "none"
    /\ result = NoResult

(***************************************************************************)
(* The output stages: the project organizer (autoDetectProjects, then      *)
(* organizeIntoProjects) and MarkdownExporter.export.  Their state is      *)
(* declared here; their operations follow the import state machine.        *)
(***************************************************************************)
VARIABLES
    orgConversations,  \* the conversations handed to the project organizer
    orgOptions,        \* [keywordThreshold, minConversations]
    opc,               \* "idle", "detecting", "organizing", "done", "failed"
    outerIdx,          \* the position of autoDetectProjects' outer forEach
    orgAssigned,       \* autoDetectProjects' set of assigned ids
    projects,          \* the projects found so far
    writeIdx,          \* the next file system call of organizeIntoProjects
    disk               \* the directories and files below outputDir/projects

projectVars ==
    <<orgConversations, orgOptions, opc, outerIdx, orgAssigned, projects, writeIdx, disk>>

VARIABLES
    expConversations,  \* the conversations handed to MarkdownExporter.export
    classifications,   \* the classification results handed to it
    exportOptions,     \* its options
    epc,               \* "idle", "writing", "done", "failed"
    fileIdx,           \* the next file the exporter writes
    outputDir,         \* the files written below options.outputDir
    exported,          \* the projects pushed so far
    summary            \* the ExportSummary returned

exportVars ==
    <<expConversations, classifications, exportOptions, epc, fileIdx, outputDir, exported,
      summary>>

VARIABLES
    fsFiles,    \* the files of the file system FileHandler works on: a set of [path, content]
    fsDirs,     \* its directories: a set of paths
    clock,      \* the millisecond new Date() reads
    writes,     \* the number of writeFile calls made
    lastWrite,  \* the last writeFile call: its arguments, the files before it, its outcome
    checked     \* the last validateOutputPath call: its path and whether it threw

fileVars == <<fsFiles, fsDirs, clock, writes, lastWrite, checked>>

VARIABLES
    archive,      \* the entries of the ZIP archive, in archive order
    zpc,          \* where extractConversationsFromZip stands
    requested,    \* the number of zipfile.readEntry() calls made
    delivered,    \* the number of 'entry' events handled
    found,        \* conversationsFound
    endReached,   \* the 'end' event was handled
    settleCalls,  \* the number of resolve / reject calls made
    settled       \* the promise: its state and what it settled with

zipVars == <<archive, zpc, requested, delivered, found, endReached, settleCalls, settled>>

VARIABLES
    command,      \* the command of the simple command line: its name, --git, a ZIP input
    repo,         \* the output directory as git sees it when the command starts
    cpc,          \* where the command's action stands
    outputFiles,  \* what the command has written below the output directory
    tempFile,     \* the temporary copy of conversations.json exists
    cleanup,      \* the action's variable cleanup is assigned
    committed,    \* handleGitOperations committed the output directory
    exitCode,     \* the code the process ended with; -1 while it runs
    stoppedBy     \* what made the command call process.exit(1)

commandVars == <<command, repo, cpc, outputFiles, tempFile, cleanup, committed, exitCode,
                 stoppedBy>>

VARIABLES
    chats,          \* the conversations handed to exportAllChats
    chpc,           \* where exportAllChats stands
    chatIdx,        \* the conversation the loop of exportAllChats is at
    chatFiles,      \* the markdown files in options.outputDir: a set of [filename, chat]
    exportedFiles   \* exportedFiles

chatVars == <<chats, chpc, chatIdx, chatFiles, exportedFiles>>

\* the state of the utilities the commands call
toolVars == <<fileVars, zipVars, commandVars, chatVars>>

outputVars == <<projectVars, exportVars, toolVars>>

(***************************************************************************)
(* Similarity engine and deduplication / version-chain builder.            *)
(* A conversation is reduced to what the builder reads: its id, its set of *)
(* significant words, its timestamp and its number of messages.            *)
(***************************************************************************)
\* largest number of conversations handed to exportResults
MaxConvs == 3

\* word sets with scores 3/4, 3/5, 1/3 and 0 between them, at two instants each
Profiles ==
    {[words |-> w, ts |-> t, msgs |-> Cardinality(w) - 1] :
        w \in {{1, 2, 3}, {1, 2, 3, 4}, {1, 2, 4, 5}, {6, 7}}, t \in {1, 2}}
    \cup {[words |-> {1, 2, 3, 4}, ts |-> 3, msgs |-> 1], [words |-> {1, 2, 3}, ts |-> 3, msgs |-> 4],
          [words |-> {}, ts |-> 2, msgs |-> 1]}

\* the conversation lists: the i-th conversation has id i
ConversationLists ==
    UNION {{[i \in 1..n |-> [id |-> i, words |-> f[i].words, ts |-> f[i].ts, msgs |-> f[i].msgs]] :
              f \in [1..n -> Profiles]} : n \in 0..MaxConvs}

\* the options of exportResults: --dedupe-strategy (may be absent), --group-iterations
OptionSets ==
    [dedupeStrategy : {"undefined", "keep-all", "keep-latest", "keep-best", "merge-versions"},
     groupIterations : BOOLEAN]

\* similarity(a, b): shared significant words over the union of both word sets
\* the bare ratio, with 0 for two conversations without significant words
Similarity_ZeroOnEmpty(a, b) ==
    IF a.words \cup b.words = {} THEN <<0, 1>>
    ELSE <<Cardinality(a.words \cap b.words), Cardinality(a.words \cup b.words)>>

Similarity(a, b) ==
    IF a.words \cup b.words = {} THEN <<1, 1>>
    ELSE <<Cardinality(a.words \cap b.words), Cardinality(a.words \cup b.words)>>

\* parseFloat(options.similarityThreshold || '0.6'), parseFloat(options.duplicateThreshold || '0.8')
Thresholds == [similarity |-> <<6, 10>>, duplicate |-> <<8, 10>>]

\* the classification of a score against the two thresholds
Classify(score) ==
    IF ~RatLess(score, Thresholds.duplicate) THEN "duplicate"
    ELSE IF ~RatLess(score, Thresholds.similarity) THEN "iteration"
    ELSE "unrelated"

\* a sweep that looks at every conversation, assigned or not
Sweep_IgnoresAssigned(convs, seed, taken) ==
    {j \in 1..Len(convs) : Classify(Similarity(convs[seed], convs[j])) # "unrelated"}

\* the sweep of one seed: every not-yet-assigned conversation whose score with
\* the seed reaches similarityThreshold (the seed itself is one of them)
Sweep(convs, seed, taken) ==
    {j \in (1..Len(convs)) \ taken : Classify(Similarity(convs[seed], convs[j])) # "unrelated"}

\* the members of a cluster that are classified duplicate: the seed and every
\* member whose score with the seed reaches duplicateThreshold
DuplicateMembers(convs, c) ==
    {j \in c.members : Classify(Similarity(convs[c.seed], convs[j])) = "duplicate"}

\* a cluster all of whose members besides the seed are iterations of the seed
IsIterationCluster(convs, c) ==
    Cardinality(c.members) >= 2 /\ DuplicateMembers(convs, c) = {c.seed}

\* the chronologically first member instead of the last
Latest_PicksEarliest(convs, members) ==
    CHOOSE j \in members : \A k \in members :
        convs[j].ts < convs[k].ts \/ (convs[j].ts = convs[k].ts /\ j <= k)

\* the chronologically last member (the later position wins a tie)
Latest(convs, members) ==
    CHOOSE j \in members : \A k \in members :
        convs[k].ts < convs[j].ts \/ (convs[k].ts = convs[j].ts /\ k <= j)

\* the member with the most messages (the earlier position wins a tie)
Best(convs, members) ==
    CHOOSE j \in members : \A k \in members :
        convs[k].msgs < convs[j].msgs \/ (convs[k].msgs = convs[j].msgs /\ j <= k)

\* the chronologically first member (the earlier position wins a tie)
Earliest(convs, members) ==
    CHOOSE j \in members : \A k \in members :
        convs[j].ts < convs[k].ts \/ (convs[j].ts = convs[k].ts /\ j <= k)

RECURSIVE InPositionOrder(_)
\* the members in input order
InPositionOrder(members) ==
    IF members = {} THEN <<>>
    ELSE LET m == CHOOSE j \in members : \A k \in members : j <= k
         IN <<m>> \o InPositionOrder(members \ {m})

\* the members left in input order
ByTimestamp_Unsorted(convs, members) == InPositionOrder(members)

RECURSIVE ByTimestamp(_, _)
\* the members ordered by timestamp ascending
ByTimestamp(convs, members) ==
    IF members = {} THEN <<>>
    ELSE <<Earliest(convs, members)>>
         \o ByTimestamp(convs, members \ {Earliest(convs, members)})

\* the version chain of a cluster: version is the 1-based rank by timestamp
VersionChain(convs, c) ==
    [seed |-> c.seed,
     versions |-> [i \in 1..Cardinality(c.members) |->
                     [conversation |-> convs[ByTimestamp(convs, c.members)[i]],
                      version |-> i,
                      timestamp |-> convs[ByTimestamp(convs, c.members)[i]].ts]]]

\* whether iteration clusters become version chains
GroupsIterations(opts) == opts.groupIterations \/ opts.strategy = "merge-versions"

\* the members of a cluster the strategy drops
Dropped(convs, c, opts) ==
    IF Cardinality(c.members) < 2 THEN {}
    ELSE IF GroupsIterations(opts) /\ IsIterationCluster(convs, c) THEN {}
    ELSE IF opts.strategy = "keep-latest" /\ Cardinality(DuplicateMembers(convs, c)) >= 2
    THEN c.members \ {Latest(convs, c.members)}
    ELSE IF opts.strategy = "keep-best"
    THEN c.members \ {Best(convs, c.members)}
    ELSE {}

AllDropped(convs, cls, opts) == UNION {Dropped(convs, cls[i], opts) : i \in 1..Len(cls)}

\* the result of DeduplicationManager.processConversations for the clusters found
DeduplicationResult(convs, cls, opts) ==
    LET dropped == AllDropped(convs, cls, opts)
        kept(conv) == conv.id \notin dropped
        chained(c) == GroupsIterations(opts) /\ IsIterationCluster(convs, c)
        chainOf(c) == VersionChain(convs, c)
    IN [keptConversations |-> Filter(convs, kept),
        versionChains |-> Map(Filter(cls, chained), chainOf),
        duplicatesRemoved |-> Cardinality(dropped),
        versionChainsCreated |-> Len(Filter(cls, chained))]

NoDeduplicationResult ==
    [keptConversations |-> <<>>, versionChains |-> <<>>, duplicatesRemoved |-> 0,
     versionChainsCreated |-> 0]

(***************************************************************************)
(* exportResults: the deduplication stage of the import command            *)
(***************************************************************************)
VARIABLES
    conversations,       \* the conversations handed to exportResults
    options,             \* the command's options
    dpc,                 \* "idle", "start", "clustering", "applied", "done"
    seedIdx,             \* the position the clustering pass stands at
    assigned,            \* the positions already placed in a cluster
    clusters,            \* the clusters found so far, [seed, members]
    dedup,               \* the result of processConversations
    finalConversations,  \* what exportResults hands to the exporter
    versionChains

dedupVars ==
    <<conversations, options, dpc, seedIdx, assigned, clusters, dedup, finalConversations,
      versionChains>>

\* a default of keep-latest
deduplicationStrategy_DefaultKeepLatest(opts) ==
    IF opts.dedupeStrategy = "undefined" THEN "keep-latest" ELSE opts.dedupeStrategy

\* options.dedupeStrategy || 'keep-all'
deduplicationStrategy(opts) ==
    IF opts.dedupeStrategy = "undefined" THEN "keep-all" ELSE opts.dedupeStrategy

\* options.groupIterations || deduplicationStrategy !== 'keep-all'
isDeduplicationActive(opts) == opts.groupIterations \/ deduplicationStrategy(opts) # "keep-all"

\* the options exportResults passes to processConversations
deduplicationOptions(opts) ==
    [strategy |-> deduplicationStrategy(opts), groupIterations |-> opts.groupIterations]

DedupIdle ==
    /\ conversations = <<>>
    /\ options = [dedupeStrategy |-> "undefined", groupIterations |-> FALSE]
    /\ dpc = "idle"
    /\ seedIdx = 1
    /\ assigned = {}
    /\ clusters = <<>>
    /\ dedup = NoDeduplicationResult
    /\ finalConversations = <<>>
    /\ versionChains = <<>>

DedupInit ==
    /\ conversations \in ConversationLists
    /\ options \in OptionSets
    /\ dpc = "start"
    /\ seedIdx = 1
    /\ assigned = {}
    /\ clusters = <<>>
    /\ dedup = NoDeduplicationResult
    /\ finalConversations = <<>>
    /\ versionChains = <<>>

\* deduplication is not active: every conversation goes on as it is
KeepAllBypass ==
    /\ dpc = "start"
    /\ ~isDeduplicationActive(options)
    /\ finalConversations' = conversations
    /\ versionChains' = <<>>
    /\ dpc' = "done"
    /\ UNCHANGED <<conversations, options, seedIdx, assigned, clusters, dedup, importVars,
                   outputVars>>

\* deduplication is active: processConversations starts its clustering pass
BeginDeduplication ==
    /\ dpc = "start"
    /\ isDeduplicationActive(options)
    /\ dpc' = "clustering"
    /\ UNCHANGED <<conversations, options, seedIdx, assigned, clusters, dedup,
                   finalConversations, versionChains, importVars, outputVars>>

\* the pass reaches an unassigned conversation: it seeds a cluster
SeedCluster ==
    /\ dpc = "clustering"
    /\ seedIdx <= Len(conversations)
    /\ seedIdx \notin assigned
    /\ clusters' = Append(clusters, [seed |-> seedIdx,
                                     members |-> Sweep(conversations, seedIdx, assigned)])
    /\ assigned' = assigned \cup Sweep(conversations, seedIdx, assigned)
    /\ seedIdx' = seedIdx + 1
    /\ UNCHANGED <<conversations, options, dpc, dedup, finalConversations, versionChains,
                   importVars, outputVars>>

\* the pass reaches a conversation an earlier cluster took: it is passed over
SkipAssigned ==
    /\ dpc = "clustering"
    /\ seedIdx <= Len(conversations)
    /\ seedIdx \in assigned
    /\ seedIdx' = seedIdx + 1
    /\ UNCHANGED <<conversations, options, dpc, assigned, clusters, dedup, finalConversations,
                   versionChains, importVars, outputVars>>

\* the pass is over: the strategy is applied to every cluster
ApplyStrategy ==
    /\ dpc = "clustering"
    /\ seedIdx > Len(conversations)
    /\ dedup' = DeduplicationResult(conversations, clusters, deduplicationOptions(options))
    /\ dpc' = "applied"
    /\ UNCHANGED <<conversations, options, seedIdx, assigned, clusters, finalConversations,
                   versionChains, importVars, outputVars>>

\* exportResults takes over the result of processConversations
AdoptResult ==
    /\ dpc = "applied"
    /\ finalConversations' = dedup.keptConversations
    /\ versionChains' = dedup.versionChains
    /\ dpc' = "done"
    /\ UNCHANGED <<conversations, options, seedIdx, assigned, clusters, dedup, importVars,
                   outputVars>>

DedupNext ==
    \/ KeepAllBypass
    \/ BeginDeduplication
    \/ SeedCluster
    \/ SkipAssigned
    \/ ApplyStrategy
    \/ AdoptResult

(***************************************************************************)
(* Detection, validation and parsing steps                                 *)
(***************************************************************************)
\* one iteration of the loop of detectPlatform: validate with PARSERS[idx]; a
\* TypeError of validate leaves detectPlatform
DetectStep ==
    /\ pc \in {"loaded", "detecting"}
    /\ idx <= Len(PARSERS)
    /\ tried' = Append(tried, PARSERS[idx])
    /\ LET r == Validate(PARSERS[idx], raw) IN
         IF r.threw
         THEN /\ pc' = "failed"
              /\ validation' = r
              /\ idx' = idx
         ELSE IF ClearsThreshold(r)
         THEN /\ pc' = "detected"
              /\ validation' = r
              /\ idx' = idx
         ELSE /\ pc' = "detecting"
              /\ validation' = validation
              /\ idx' = idx + 1
    /\ UNCHANGED <<raw, parser, result, dedupVars, outputVars>>

\* no adapter cleared the threshold: return BaseParser.detectPlatform(data)
DetectFallback ==
    /\ pc = "detecting"
    /\ idx > Len(PARSERS)
    /\ validation' = BaseDetectPlatform(raw)
    /\ pc' = IF BaseDetectPlatform(raw).threw THEN "failed" ELSE "detected"
    /\ UNCHANGED <<raw, idx, tried, parser, result, dedupVars, outputVars>>

\* parseExport after detectPlatform: autoSelectParser, then parser.parse(data)
ParseDetected ==
    /\ pc = "detected"
    /\ IF validation.isValid
       THEN /\ parser' = validation.platform
            /\ result' = Parse(validation.platform, raw)
       ELSE /\ parser' = parser
            /\ result' = ParseThrew
    /\ pc' = "done"
    /\ UNCHANGED <<raw, idx, tried, validation, dedupVars, outputVars>>

\* a caller validates the export with one adapter
ValidateWith(p) ==
    /\ pc = "loaded"
    /\ parser' = p
    /\ validation' = Validate(p, raw)
    /\ pc' = "validated"
    /\ UNCHANGED <<raw, idx, tried, result, dedupVars, outputVars>>

\* and parses with that adapter
ParseWith ==
    /\ pc = "validated"
    /\ result' = Parse(parser, raw)
    /\ pc' = "done"
    /\ UNCHANGED <<raw, idx, tried, validation, parser, dedupVars, outputVars>>

\* loadExportFile of the simple command line: the key tests choose the
\* adapter and its parse function runs at once
LoadExportFile ==
    /\ pc = "loaded"
    /\ parser' = sniffPlatform(raw).platform
    /\ result' = IF sniffPlatform(raw).threw THEN ParseThrew
                 ELSE Parse(sniffPlatform(raw).platform, raw)
    /\ pc' = "simple"
    /\ UNCHANGED <<raw, idx, tried, validation, dedupVars, outputVars>>

ImportNext ==
    \/ DetectStep
    \/ DetectFallback
    \/ ParseDetected
    \/ \E p \in AdapterClasses : ValidateWith(p)
    \/ ParseWith
    \/ LoadExportFile

\* the collection an adapter reads from the export, and its structural validity test
CollectionOf(p, data) ==
    CASE p = "chatgpt" -> IF data.kind = "arr" THEN data.items ELSE data.conversations.items
      [] p = "claude" -> IF data.kind = "arr" THEN data.items ELSE data.conversations.items
      [] p = "gemini" -> data.chats.items
      [] OTHER -> data.threads.items

StructurallyValid(p, data, e) ==
    CASE p = "chatgpt" -> IF data.kind = "arr" THEN ChatGPTArrayEntryOk(e) ELSE ChatGPTEntryOk(e)
      [] p = "claude" -> IF data.kind = "arr" THEN isValidNewClaudeConversation(e)
                         ELSE isValidClaudeConversation(e)
      [] p = "gemini" -> isValidGeminiChat(e)
      [] OTHER -> isValidPerplexityThread(e)

\* the export is a collection for adapter p (the key the adapter reads holds an array)
IsCollectionFor(p, data) ==
    CASE p = "chatgpt" -> data.kind = "arr" \/ (data.kind = "obj" /\ data.conversations.t = "arr")
      [] p = "claude" -> data.kind = "arr" \/ (data.kind = "obj" /\ data.conversations.t = "arr")
      [] p = "gemini" -> data.kind = "obj" /\ data.chats.t = "arr"
      [] OTHER -> data.kind = "obj" /\ data.threads.t = "arr"

ValidCount(p, data) ==
    Cardinality({i \in 1..Len(CollectionOf(p, data)) :
                    StructurallyValid(p, data, CollectionOf(p, data)[i])})

(***************************************************************************)
(* Damaging an export: one valid entry of the collection is replaced by a  *)
(* malformed one and the adapter validates the export again                *)
(***************************************************************************)
ReplaceEntry(p, data, i, m) ==
    IF data.kind = "arr" THEN [data EXCEPT !.items[i] = m]
    ELSE IF p \in {"chatgpt", "claude"} THEN [data EXCEPT !.conversations.items[i] = m]
    ELSE IF p = "gemini" THEN [data EXCEPT !.chats.items[i] = m]
    ELSE [data EXCEPT !.threads.items[i] = m]

Corrupt(i, m) ==
    /\ pc = "validated"
    /\ i \in 1..Len(CollectionOf(parser, raw))
    /\ StructurallyValid(parser, raw, CollectionOf(parser, raw)[i])
    /\ raw' = ReplaceEntry(parser, raw, i, m)
    /\ validation' = Validate(parser, ReplaceEntry(parser, raw, i, m))
    /\ UNCHANGED <<pc, idx, tried, parser, result, dedupVars, outputVars>>

(***************************************************************************)
(* The project organizer.  A conversation is reduced to what the organizer *)
(* reads: its id and the keywords extractKeywords finds in its title and   *)
(* first three messages.  A keyword is written as a number, the length of  *)
(* the word, which is what generateProjectName orders keywords by.         *)
(***************************************************************************)
\* largest number of conversations handed to the project organizer
MaxOrgConvs == 3

OrgConv(id, keywords) == [id |-> id, keywords |-> keywords]

\* conversations sharing 3, 2 and 0 keywords, one without keywords, and two
\* conversations carrying the same id
OrgPool ==
    {OrgConv(1, {4, 5, 6}), OrgConv(2, {4, 5, 6, 7}), OrgConv(3, {6, 7}), OrgConv(4, {}),
     OrgConv(1, {8}), OrgConv(5, {4, 5, 6, 8})}

OrgLists == UNION {[1..n -> OrgPool] : n \in 0..MaxOrgConvs}

\* the options the organize command passes, with its defaults 3 and 2
OrgOptionSets ==
    [keywordThreshold : {0, 2, 3}, minConversations : {1, 2, 3}]

extractKeywords(conv) == conv.keywords

\* conversationKeywords.get(id): the Map keeps the keywords set last for an id
conversationKeywords(convs, id) ==
    LET at == {i \in 1..Len(convs) : convs[i].id = id}
    IN extractKeywords(convs[CHOOSE i \in at : \A j \in at : j <= i])

\* [...myKeywords].filter(k => otherKeywords.has(k))
commonKeywords(convs, id, otherId) ==
    conversationKeywords(convs, id) \cap conversationKeywords(convs, otherId)

\* an inner forEach that does not look at the assigned ids
related_IgnoresAssigned(convs, i, assignedIds, opts) ==
    LET Joins(other) ==
            /\ other.id # convs[i].id
            /\ Cardinality(commonKeywords(convs, convs[i].id, other.id))
                   >= opts.keywordThreshold
        others == SelectSeq(convs, Joins)
    IN <<convs[i].id>> \o [k \in 1..Len(others) |-> others[k].id]

\* the inner forEach: the seed's id, then the id of every other conversation
\* that is not assigned and shares keywordThreshold keywords with the seed
related(convs, i, assignedIds, opts) ==
    LET Joins(other) ==
            /\ other.id # convs[i].id
            /\ other.id \notin assignedIds
            /\ Cardinality(commonKeywords(convs, convs[i].id, other.id))
                   >= opts.keywordThreshold
        others == SelectSeq(convs, Joins)
    IN <<convs[i].id>> \o [k \in 1..Len(others) |-> others[k].id]

\* the keywords of the seed and of every conversation that joined
projectKeywords(convs, ids) ==
    UNION {conversationKeywords(convs, ids[k]) : k \in 1..Len(ids)}

\* the three longest keywords
generateProjectName(keywords) ==
    {k \in keywords : Cardinality({m \in keywords : m > k}) < 3}

\* lower case and hyphens: names made of different words stay different
sanitizeProjectName(name) == name

\* a project for every cluster
meetsMinConversations_Always(ids, opts) == TRUE

\* related.length >= minConversations
meetsMinConversations(ids, opts) == Len(ids) >= opts.minConversations

Project(convs, ids) ==
    [name |-> generateProjectName(projectKeywords(convs, ids)),
     conversations |-> ids,
     keywords |-> projectKeywords(convs, ids)]

\* new Set(projects.flatMap(p => p.conversations))
assignedIds(projs) ==
    UNION {{projs[p].conversations[k] : k \in 1..Len(projs[p].conversations)} :
           p \in 1..Len(projs)}

\* no report of the conversations left over
unassigned_None(convs, projs) == <<>>

\* conversations.filter(c => !assignedIds.has(c.id))
unassigned(convs, projs) ==
    LET Left(c) == c.id \notin assignedIds(projs)
    IN SelectSeq(convs, Left)

IdsOf(convs) == [k \in 1..Len(convs) |-> convs[k].id]

\* a call of mkdir or writeFile: the project it belongs to (0 for none), the
\* directory below outputDir/projects, the file and the ids the file lists
FsCall(project, dir, file, ids) ==
    [project |-> project, dir |-> dir, file |-> file, ids |-> ids]

\* the calls made for one project, in order
projectCalls(projs, p) ==
    LET dir == <<sanitizeProjectName(projs[p].name)>>
    IN <<FsCall(p, dir, "", <<>>),
         FsCall(p, dir, "README.md", projs[p].conversations),
         FsCall(p, dir, "project.json", projs[p].conversations),
         FsCall(p, dir, "conversations.md", projs[p].conversations)>>

RECURSIVE allProjectCalls(_, _)
allProjectCalls(projs, p) ==
    IF p > Len(projs) THEN <<>>
    ELSE projectCalls(projs, p) \o allProjectCalls(projs, p + 1)

\* every file system call of organizeIntoProjects, in order
fsCalls(convs, projs) ==
    <<FsCall(0, <<>>, "", <<>>)>>
    \o allProjectCalls(projs, 1)
    \o (IF Len(unassigned(convs, projs)) > 0
        THEN <<FsCall(0, <<>>, "unassigned.md", IdsOf(unassigned(convs, projs)))>>
        ELSE <<>>)

\* what a directory or file holds after a call that succeeded
Stored(call) == [dir |-> call.dir, file |-> call.file, ids |-> call.ids]

WriteTo(files, call) ==
    {f \in files : ~(f.dir = call.dir /\ f.file = call.file)} \cup {Stored(call)}

ProjectsIdle ==
    /\ orgConversations = <<>>
    /\ orgOptions = [keywordThreshold |-> 3, minConversations |-> 2]
    /\ opc = "idle"
    /\ outerIdx = 1
    /\ orgAssigned = {}
    /\ projects = <<>>
    /\ writeIdx = 1
    /\ disk = {}

ProjectsInit ==
    /\ orgConversations \in OrgLists
    /\ orgOptions \in OrgOptionSets
    /\ opc = "detecting"
    /\ outerIdx = 1
    /\ orgAssigned = {}
    /\ projects = <<>>
    /\ writeIdx = 1
    /\ disk = {}

\* one pass of autoDetectProjects' outer forEach
OuterIteration ==
    /\ opc = "detecting"
    /\ outerIdx <= Len(orgConversations)
    /\ LET conv == orgConversations[outerIdx]
           ids == related(orgConversations, outerIdx, orgAssigned, orgOptions)
       IN IF conv.id \notin orgAssigned /\ meetsMinConversations(ids, orgOptions)
          THEN /\ projects' = Append(projects, Project(orgConversations, ids))
               /\ orgAssigned' = orgAssigned \cup {ids[k] : k \in 1..Len(ids)}
          ELSE UNCHANGED <<projects, orgAssigned>>
    /\ outerIdx' = outerIdx + 1
    /\ UNCHANGED <<orgConversations, orgOptions, opc, writeIdx, disk, importVars, dedupVars,
                   exportVars, toolVars>>

\* autoDetectProjects returns and the command calls organizeIntoProjects
DetectReturns ==
    /\ opc = "detecting"
    /\ outerIdx > Len(orgConversations)
    /\ opc' = "organizing"
    /\ UNCHANGED <<orgConversations, orgOptions, outerIdx, orgAssigned, projects, writeIdx,
                   disk, importVars, dedupVars, exportVars, toolVars>>

\* the next mkdir or writeFile succeeds
FsCallSucceeds ==
    /\ opc = "organizing"
    /\ writeIdx <= Len(fsCalls(orgConversations, projects))
    /\ disk' = WriteTo(disk, fsCalls(orgConversations, projects)[writeIdx])
    /\ writeIdx' = writeIdx + 1
    /\ UNCHANGED <<orgConversations, orgOptions, opc, outerIdx, orgAssigned, projects,
                   importVars, dedupVars, exportVars, toolVars>>

\* the next mkdir or writeFile rejects; nothing catches it
FsCallRejects ==
    /\ opc = "organizing"
    /\ writeIdx <= Len(fsCalls(orgConversations, projects))
    /\ opc' = "failed"
    /\ UNCHANGED <<orgConversations, orgOptions, outerIdx, orgAssigned, projects, writeIdx,
                   disk, importVars, dedupVars, exportVars, toolVars>>

OrganizeReturns ==
    /\ opc = "organizing"
    /\ writeIdx > Len(fsCalls(orgConversations, projects))
    /\ opc' = "done"
    /\ UNCHANGED <<orgConversations, orgOptions, outerIdx, orgAssigned, projects, writeIdx,
                   disk, importVars, dedupVars, exportVars, toolVars>>

ProjectsNext ==
    \/ OuterIteration
    \/ DetectReturns
    \/ FsCallSucceeds
    \/ FsCallRejects
    \/ OrganizeReturns

(***************************************************************************)
(* MarkdownExporter.export.  A conversation is reduced to its id and to    *)
(* what extractProjectName reads of its title; a classification to its id, *)
(* isWriting and category.                                                 *)
(***************************************************************************)
\* largest number of conversations handed to the exporter
MaxExported == 3

ExpConv(id, title) == [id |-> id, title |-> title]

\* a title naming a novel and a title naming nothing; a list may hold the
\* same conversation (and so the same id) more than once
ExpPool == {ExpConv(1, "novel"), ExpConv(2, "notes")}

ExpLists == UNION {[1..n -> ExpPool] : n \in 0..MaxExported}

ClassificationResult(id, isWriting, category) ==
    [id |-> id, isWriting |-> isWriting, category |-> category]

Categories == {"fiction", "casual"}

\* one classification for each conversation, in order, as the pipeline and
\* the import command produce them
ClassificationsFor(convs) ==
    {cls \in [1..Len(convs) -> [id : {1, 2}, isWriting : BOOLEAN, category : Categories]] :
        \A k \in 1..Len(convs) : cls[k].id = convs[k].id}

\* a version chain over conversations handed to the exporter
InputChain(convs, cls) ==
    [projectName |-> "Chain", conversations |-> convs, classifications |-> cls]

\* the options of the import command: organizeByProject or organizeByCategory
\* or neither, the version chains the deduplication stage found (none, or
\* one chain of the first two conversations),
\* includeVersionChains as exportResults sets it, createIndex, includeMetadata
ExportOptionSets(convs, cls) ==
    {[organize |-> o, versionChains |-> ch, includeVersionChains |-> Len(ch) > 0,
      createIndex |-> x, includeMetadata |-> x] :
        o \in {"project", "category", "flat"},
        ch \in {<<>>} \cup (IF Len(convs) >= 2
                            THEN {<<InputChain(SubSeq(convs, 1, 2), SubSeq(cls, 1, 2))>>}
                            ELSE {}),
        x \in BOOLEAN}

\* classifications.filter(c => c.isWriting)
writingResults(cls) ==
    LET IsWriting(c) == c.isWriting
    IN SelectSeq(cls, IsWriting)

\* conversations.find(conv => conv.id === id)
find(convs, id) ==
    convs[CHOOSE i \in 1..Len(convs) :
              convs[i].id = id /\ \A j \in 1..(i - 1) : convs[j].id # id]

\* writingResults.map(result => conversations.find(conv => conv.id === result.id))
writingConversations(convs, cls) ==
    [k \in 1..Len(writingResults(cls)) |-> find(convs, writingResults(cls)[k].id)]

extractProjectName(conv, c) ==
    IF conv.title = "novel" THEN "Novel Project"
    ELSE IF c.category = "fiction" THEN "Fiction Writing"
    ELSE "Casual Writing"

formatCategoryName(category) == IF category = "fiction" THEN "Fiction" ELSE "Casual"

\* the keys of a Map in insertion order
RECURSIVE mapKeys(_)
mapKeys(keys) ==
    IF keys = <<>> THEN <<>>
    ELSE LET front == SubSeq(keys, 1, Len(keys) - 1)
             last == keys[Len(keys)]
         IN IF \E k \in 1..Len(front) : front[k] = last
            THEN mapKeys(front)
            ELSE Append(mapKeys(front), last)

\* the items pushed under one key, in order
RECURSIVE itemsAt(_, _, _)
itemsAt(items, keys, key) ==
    IF items = <<>> THEN <<>>
    ELSE LET n == Len(items)
             front == itemsAt(SubSeq(items, 1, n - 1), SubSeq(keys, 1, n - 1), key)
         IN IF keys[n] = key THEN Append(front, items[n]) ELSE front

ExportedProject(name, path, convs, cls) ==
    [name |-> name, path |-> path, conversations |-> convs, classifications |-> cls]

\* detectProjects: the conversations grouped by extractProjectName
detectProjects(convs, cls) ==
    LET keys == [k \in 1..Len(convs) |-> extractProjectName(convs[k], cls[k])]
    IN [g \in 1..Len(mapKeys(keys)) |->
           ExportedProject(mapKeys(keys)[g], mapKeys(keys)[g],
                           itemsAt(convs, keys, mapKeys(keys)[g]),
                           itemsAt(cls, keys, mapKeys(keys)[g]))]

\* the conversations grouped by classification.category
categoryGroups(convs, cls) ==
    LET keys == [k \in 1..Len(convs) |-> cls[k].category]
    IN [g \in 1..Len(mapKeys(keys)) |->
           ExportedProject(formatCategoryName(mapKeys(keys)[g]),
                           formatCategoryName(mapKeys(keys)[g]),
                           itemsAt(convs, keys, mapKeys(keys)[g]),
                           itemsAt(cls, keys, mapKeys(keys)[g]))]

organizeFlatStructure(convs, cls) ==
    IF Len(convs) = 0 THEN <<>>
    ELSE <<ExportedProject("All Writing Conversations", ".", convs, cls)>>

organizeByVersionChains(chains) ==
    [c \in 1..Len(chains) |->
        ExportedProject(chains[c].projectName, chains[c].projectName,
                        chains[c].conversations, chains[c].classifications)]

\* the branch export takes
organization(opts) ==
    IF opts.includeVersionChains /\ Len(opts.versionChains) > 0 THEN "chains"
    ELSE opts.organize

\* the projects export collects once every write has succeeded
organize(convs, cls, opts) ==
    CASE organization(opts) = "chains" -> organizeByVersionChains(opts.versionChains)
      [] organization(opts) = "project" ->
            detectProjects(writingConversations(convs, cls), writingResults(cls))
      [] organization(opts) = "category" ->
            categoryGroups(writingConversations(convs, cls), writingResults(cls))
      [] OTHER ->
            organizeFlatStructure(writingConversations(convs, cls), writingResults(cls))

\* a call of ensureDirectory or writeFile: the project it belongs to (0 for
\* none), its directory, the subdirectory, the file (a number and a title
\* for a conversation file) and whether it is a directory
ExportCall(project, dir, sub, name, isDir) ==
    [project |-> project, dir |-> dir, sub |-> sub, name |-> name, isDir |-> isDir]

conversationFiles(p, proj, sub) ==
    [i \in 1..Len(proj.conversations) |->
        ExportCall(p, proj.path, sub, <<i, proj.conversations[i].title>>, FALSE)]

\* the calls made for one project, in order
projectFiles(mode, p, proj) ==
    CASE mode = "chains" ->
            <<ExportCall(p, proj.path, "", <<0, "">>, TRUE),
              ExportCall(p, proj.path, "versions", <<0, "">>, TRUE)>>
            \o conversationFiles(p, proj, "versions")
            \o <<ExportCall(p, proj.path, "conversations",
                            <<0, proj.conversations[Len(proj.conversations)].title>>, FALSE),
                 ExportCall(p, proj.path, "", <<0, "VERSION-HISTORY.md">>, FALSE)>>
      [] mode = "project" ->
            <<ExportCall(p, proj.path, "", <<0, "">>, TRUE)>>
            \o conversationFiles(p, proj, "conversations")
            \o <<ExportCall(p, proj.path, "", <<0, "README.md">>, FALSE)>>
      [] mode = "category" ->
            <<ExportCall(p, proj.path, "", <<0, "">>, TRUE)>>
            \o conversationFiles(p, proj, "")
      [] OTHER -> conversationFiles(p, proj, "")

RECURSIVE allProjectFiles(_, _, _)
allProjectFiles(mode, projs, p) ==
    IF p > Len(projs) THEN <<>>
    ELSE projectFiles(mode, p, projs[p]) \o allProjectFiles(mode, projs, p + 1)

\* every file system call of export, in order
exportCalls(convs, cls, opts) ==
    <<ExportCall(0, ".", "", <<0, "">>, TRUE)>>
    \o allProjectFiles(organization(opts), organize(convs, cls, opts), 1)
    \o (IF opts.createIndex THEN <<ExportCall(0, ".", "", <<0, "INDEX.md">>, FALSE)>>
        ELSE <<>>)
    \o (IF opts.includeMetadata
        THEN <<ExportCall(0, ".", "", <<0, "export-summary.json">>, FALSE)>>
        ELSE <<>>)

\* the projects pushed once the first n calls have succeeded
pushedAfter(convs, cls, opts, n) ==
    LET calls == exportCalls(convs, cls, opts)
        complete == {p \in 1..Len(organize(convs, cls, opts)) :
                        \A k \in 1..Len(calls) : calls[k].project = p => k <= n}
    IN SubSeq(organize(convs, cls, opts), 1, Cardinality(complete))

ExportSummary(convs, cls, projs) ==
    [totalConversations |-> Len(convs),
     writingConversations |-> Len(writingConversations(convs, cls)),
     projects |-> projs]

NoSummary == [totalConversations |-> -1, writingConversations |-> -1, projects |-> <<>>]

ExportIdle ==
    /\ expConversations = <<>>
    /\ classifications = <<>>
    /\ exportOptions = [organize |-> "flat", versionChains |-> <<>>,
                        includeVersionChains |-> FALSE, createIndex |-> FALSE,
                        includeMetadata |-> FALSE]
    /\ epc = "idle"
    /\ fileIdx = 1
    /\ outputDir = {}
    /\ exported = <<>>
    /\ summary = NoSummary

ExportInit ==
    /\ expConversations \in ExpLists
    /\ classifications \in ClassificationsFor(expConversations)
    /\ exportOptions \in ExportOptionSets(expConversations, classifications)
    /\ epc = "writing"
    /\ fileIdx = 1
    /\ outputDir = {}
    /\ exported = <<>>
    /\ summary = NoSummary

\* the next ensureDirectory or writeFile succeeds
ExportCallSucceeds ==
    /\ epc = "writing"
    /\ fileIdx <= Len(exportCalls(expConversations, classifications, exportOptions))
    /\ outputDir' = outputDir
           \cup {exportCalls(expConversations, classifications, exportOptions)[fileIdx]}
    /\ exported' = pushedAfter(expConversations, classifications, exportOptions, fileIdx)
    /\ fileIdx' = fileIdx + 1
    /\ UNCHANGED <<expConversations, classifications, exportOptions, epc, summary, importVars,
                   dedupVars, projectVars, toolVars>>

\* the next ensureDirectory or writeFile rejects; export does not catch it
ExportCallRejects ==
    /\ epc = "writing"
    /\ fileIdx <= Len(exportCalls(expConversations, classifications, exportOptions))
    /\ epc' = "failed"
    /\ UNCHANGED <<expConversations, classifications, exportOptions, fileIdx, outputDir,
                   exported, summary, importVars, dedupVars, projectVars, toolVars>>

\* export returns its summary
ExportReturns ==
    /\ epc = "writing"
    /\ fileIdx > Len(exportCalls(expConversations, classifications, exportOptions))
    /\ summary' = ExportSummary(expConversations, classifications, exported)
    /\ epc' = "done"
    /\ UNCHANGED <<expConversations, classifications, exportOptions, fileIdx, outputDir,
                   exported, importVars, dedupVars, projectVars, toolVars>>

ExportNext ==
    \/ ExportCallSucceeds
    \/ ExportCallRejects
    \/ ExportReturns

\* everything but the state of FileHandler
exceptFileVars == <<importVars, dedupVars, projectVars, exportVars, zipVars, commandVars, chatVars>>

\* everything but the state of extractConversationsFromZip
exceptZipVars == <<importVars, dedupVars, projectVars, exportVars, fileVars, commandVars, chatVars>>

\* everything but the state of the commands
exceptCommandVars == <<importVars, dedupVars, projectVars, exportVars, fileVars, zipVars, chatVars>>

\* everything but the state of exportAllChats
exceptChatVars == <<importVars, dedupVars, projectVars, exportVars, fileVars, zipVars, commandVars>>

(***************************************************************************)
(* FileHandler: writeFile, createBackup and validateOutputPath.            *)
(* A path is the sequence of its characters. The file system calls succeed *)
(* whenever the file system allows them.                                   *)
(***************************************************************************)
\* the most writeFile calls of one run
MaxWrites == 3

\* the latest millisecond the clock reaches
MaxClock == 2

\* process.cwd(): "/w"
Cwd == <<Ch.slash, 119>>

\* String.prototype.startsWith
StartsWith(s, prefix) == Len(prefix) <= Len(s) /\ SubSeq(s, 1, Len(prefix)) = prefix

\* String.prototype.lastIndexOf, counted from 1; 0 when c is absent
LastIndexOf(s, c) ==
    IF \E i \in 1..Len(s) : s[i] = c
    THEN CHOOSE i \in 1..Len(s) : s[i] = c /\ \A j \in (i + 1)..Len(s) : s[j] # c
    ELSE 0

\* path.resolve of a path without "." and ".." segments
resolve(p) == IF Len(p) > 0 /\ p[1] = Ch.slash THEN p ELSE Cwd \o <<Ch.slash>> \o p

\* path.dirname of an absolute path
dirname(p) == IF LastIndexOf(p, Ch.slash) <= 1 THEN <<Ch.slash>> ELSE SubSeq(p, 1, LastIndexOf(p, Ch.slash) - 1)

\* path.basename
basename(p) == SubSeq(p, LastIndexOf(p, Ch.slash) + 1, Len(p))

\* path.extname: from the last dot of the base name, unless that dot starts it
extname(p) ==
    IF LastIndexOf(basename(p), Ch.dot) <= 1 THEN <<>>
    ELSE SubSeq(basename(p), LastIndexOf(basename(p), Ch.dot), Len(basename(p)))

\* String.prototype.slice(0, -n): slice(0, -0) is slice(0, 0), the empty string
SliceOff(s, n) == IF n = 0 THEN <<>> ELSE SubSeq(s, 1, Len(s) - n)

\* ".backup-"
BackupMark == <<Ch.dot, 98, 97, 99, 107, 117, 112, Ch.dash>>

\* new Date().toISOString().replace(/[:.]/g, '-'): the text of a millisecond
\* is written as its digits
Timestamp(now) == Digits(now)

\* the path createBackup copies to
backupPath(filePath, now) ==
    SliceOff(filePath, Len(extname(filePath))) \o BackupMark \o Timestamp(now) \o extname(filePath)

File(path, content) == [path |-> path, content |-> content]

\* fs.existsSync
existsSync(fileSet, dirSet, p) == p \in dirSet \/ \E f \in fileSet : f.path = p

ContentAt(fileSet, p) == (CHOOSE f \in fileSet : f.path = p).content

\* fs.writeFile / fs.copyFile on an existing directory: the file at p holds content
Put(fileSet, p, content) == {f \in fileSet : f.path # p} \cup {File(p, content)}

RECURSIVE Ancestors(_)
\* a directory and the directories above it
Ancestors(d) == IF d = <<Ch.slash>> THEN {d} ELSE {d} \cup Ancestors(dirname(d))

\* FileHandler.ensureDirectory
ensureDirectory(dirSet, dirPath) ==
    IF resolve(dirPath) \in dirSet THEN dirSet ELSE dirSet \cup Ancestors(resolve(dirPath))

\* FileHandler.createBackup
createBackup(fileSet, filePath, now) ==
    Put(fileSet, resolve(backupPath(filePath, now)), ContentAt(fileSet, filePath))

FileWriteOptions == [overwrite : BOOLEAN, backupExisting : BOOLEAN, createDirectories : BOOLEAN]

\* FileHandler.writeFile: the file system it leaves and whether it threw
writeFile(fileSet, dirSet, now, filePath, content, writeOptions) ==
    LET resolvedPath == resolve(filePath)
        dir == dirname(resolvedPath)
        dirs1 == IF writeOptions.createDirectories THEN ensureDirectory(dirSet, dir) ELSE dirSet
        exists == existsSync(fileSet, dirs1, resolvedPath)
        files1 == IF exists /\ writeOptions.backupExisting
                  THEN createBackup(fileSet, resolvedPath, now) ELSE fileSet
    IN  IF exists /\ ~writeOptions.overwrite
        THEN [files |-> fileSet, dirs |-> dirs1, threw |-> TRUE]
        ELSE IF dir \notin dirs1
        THEN [files |-> files1, dirs |-> dirs1, threw |-> TRUE]
        ELSE [files |-> Put(files1, resolvedPath, content), dirs |-> dirs1, threw |-> FALSE]

\* the directories validateOutputPath refuses
dangerous ==
    << <<Ch.slash, 98, 105, 110>>,         \* "/bin"
       <<Ch.slash, 101, 116, 99>>,         \* "/etc"
       <<Ch.slash, 117, 115, 114>>,        \* "/usr"
       <<Ch.slash, 115, 121, 115>>,        \* "/sys"
       <<Ch.slash, 112, 114, 111, 99>>,    \* "/proc"
       <<Ch.slash, 118, 97, 114>> >>       \* "/var"

\* FileHandler.validateOutputPath: TRUE when it throws
validateOutputPath(outputPath) ==
    \E i \in 1..Len(dangerous) : StartsWith(resolve(outputPath), dangerous[i])

\* the files written: "/t/a.md" and "/t/R"
FilePaths ==
    { <<Ch.slash, 116, Ch.slash, 97, Ch.dot, 109, 100>>,
      <<Ch.slash, 116, Ch.slash, 82>> }

FileContents == {1, 2}

\* the suffixes put after a root directory: "", "/x", "iable", "2"
PathTails == { <<>>, <<Ch.slash, 120>>, <<105, 97, 98, 108, 101>>, <<50>> }

\* the output paths validated: each refused directory, a path inside it, two
\* siblings whose names start with its name, "/home/user", "/" and "output"
OutputPaths ==
    { dangerous[i] \o tail : i \in 1..Len(dangerous), tail \in PathTails }
        \cup { <<Ch.slash, 104, 111, 109, 101, Ch.slash, 117, 115, 101, 114>>,
               <<Ch.slash>>,
               <<111, 117, 116, 112, 117, 116>> }

NoWrite ==
    [path |-> <<>>, content |-> 0,
     options |-> [overwrite |-> FALSE, backupExisting |-> FALSE, createDirectories |-> FALSE],
     before |-> {}, dirsBefore |-> {}, at |-> 0, threw |-> FALSE]

NoCheck == [path |-> <<>>, threw |-> FALSE]

FilesIdle ==
    /\ fsFiles = {}
    /\ fsDirs = {<<Ch.slash>>, Cwd}
    /\ clock = 1
    /\ writes = 0
    /\ lastWrite = NoWrite
    /\ checked = NoCheck

FilesInit == FilesIdle

\* one call of FileHandler.writeFile
WriteFile(filePath, content, writeOptions) ==
    /\ writes < MaxWrites
    /\ LET r == writeFile(fsFiles, fsDirs, clock, filePath, content, writeOptions)
       IN  /\ fsFiles' = r.files
           /\ fsDirs' = r.dirs
           /\ lastWrite' = [path |-> filePath, content |-> content, options |-> writeOptions,
                            before |-> fsFiles, dirsBefore |-> fsDirs, at |-> clock,
                            threw |-> r.threw]
    /\ writes' = writes + 1
    /\ UNCHANGED <<clock, checked, exceptFileVars>>

\* a millisecond passes
Tick ==
    /\ clock < MaxClock
    /\ clock' = clock + 1
    /\ UNCHANGED <<fsFiles, fsDirs, writes, lastWrite, checked, exceptFileVars>>

\* one call of FileHandler.validateOutputPath
ValidateOutputPath(outputPath) ==
    /\ checked' = [path |-> outputPath, threw |-> validateOutputPath(outputPath)]
    /\ UNCHANGED <<fsFiles, fsDirs, clock, writes, lastWrite, exceptFileVars>>

WriteSomeFile ==
    \E filePath \in FilePaths : \E content \in FileContents : \E writeOptions \in FileWriteOptions :
        WriteFile(filePath, content, writeOptions)

ValidateSomePath == \E outputPath \in OutputPaths : ValidateOutputPath(outputPath)

FilesNext ==
    \/ WriteSomeFile
    \/ Tick
    \/ ValidateSomePath

(***************************************************************************)
(* extractConversationsFromZip: yauzl opens the archive with lazyEntries,  *)
(* so that each 'entry' or 'end' event answers one zipfile.readEntry().    *)
(***************************************************************************)
\* the most entries of an archive
MaxZipEntries == 3

\* "conversations.json"
ConversationsJson ==
    <<99, 111, 110, 118, 101, 114, 115, 97, 116, 105, 111, 110, 115, Ch.dot, 106, 115, 111, 110>>

\* String.prototype.toLowerCase on ASCII text
toLowerCase(str) == [i \in 1..Len(str) |-> IF str[i] >= 65 /\ str[i] <= 90 THEN str[i] + 32 ELSE str[i]]

\* String.prototype.endsWith
endsWith(str, suffix) ==
    Len(suffix) <= Len(str) /\ SubSeq(str, Len(str) - Len(suffix) + 1, Len(str)) = suffix

\* the test without toLowerCase
isConversationsEntry_CaseSensitive(entry) == endsWith(entry.fileName, ConversationsJson)

\* the test of the 'entry' handler
isConversationsEntry(entry) == endsWith(toLowerCase(entry.fileName), ConversationsJson)

\* the entry names: "conversations.json", "X/Conversations.JSON", "users.json"
\* and "conversations.json.bak"
EntryNames ==
    { ConversationsJson,
      <<88, Ch.slash, 67, 111, 110, 118, 101, 114, 115, 97, 116, 105, 111, 110, 115, Ch.dot, 74, 83, 79, 78>>,
      <<117, 115, 101, 114, 115, Ch.dot, 106, 115, 111, 110>>,
      ConversationsJson \o <<Ch.dot, 98, 97, 107>> }

\* an archive: entry i holds content i
Archives ==
    UNION { { [i \in 1..n |-> [fileName |-> names[i], content |-> i]] : names \in [1..n -> EntryNames] }
            : n \in 0..MaxZipEntries }

Pending == [state |-> "pending", content |-> 0, error |-> "none"]

\* resolve(...) and reject(...): only the first call settles the promise
Resolve(promise, content) ==
    IF promise.state = "pending" THEN [state |-> "resolved", content |-> content, error |-> "none"]
    ELSE promise

Reject(promise, error) ==
    IF promise.state = "pending" THEN [state |-> "rejected", content |-> 0, error |-> error]
    ELSE promise

ZipIdle ==
    /\ archive = <<>>
    /\ zpc = "idle"
    /\ requested = 0
    /\ delivered = 0
    /\ found = FALSE
    /\ endReached = FALSE
    /\ settleCalls = 0
    /\ settled = Pending

ZipInit ==
    /\ archive \in Archives
    /\ zpc = "opening"
    /\ requested = 0
    /\ delivered = 0
    /\ found = FALSE
    /\ endReached = FALSE
    /\ settleCalls = 0
    /\ settled = Pending

\* yauzl.open calls back with an error
OpenFails ==
    /\ zpc = "opening"
    /\ settled' = Reject(settled, "open")
    /\ settleCalls' = settleCalls + 1
    /\ zpc' = "closed"
    /\ UNCHANGED <<archive, requested, delivered, found, endReached, exceptZipVars>>

\* yauzl.open calls back with the zipfile: the first entry is requested
OpenSucceeds ==
    /\ zpc = "opening"
    /\ requested' = 1
    /\ zpc' = "reading"
    /\ UNCHANGED <<archive, delivered, found, endReached, settleCalls, settled, exceptZipVars>>

\* the 'entry' handler
OnEntry ==
    /\ zpc = "reading"
    /\ requested <= Len(archive)
    /\ delivered' = requested
    /\ IF isConversationsEntry(archive[requested])
       THEN /\ found' = TRUE
            /\ zpc' = "openingStream"
            /\ UNCHANGED requested
       ELSE /\ requested' = requested + 1
            /\ UNCHANGED <<found, zpc>>
    /\ UNCHANGED <<archive, endReached, settleCalls, settled, exceptZipVars>>

\* the 'end' handler
OnEnd ==
    /\ zpc = "reading"
    /\ requested > Len(archive)
    /\ endReached' = TRUE
    /\ IF ~found
       THEN /\ settled' = Reject(settled, "not found")
            /\ settleCalls' = settleCalls + 1
       ELSE UNCHANGED <<settled, settleCalls>>
    /\ zpc' = "closed"
    /\ UNCHANGED <<archive, requested, delivered, found, exceptZipVars>>

\* the 'error' handler of the zipfile: the requested entry cannot be read
OnZipError ==
    /\ zpc = "reading"
    /\ requested <= Len(archive)
    /\ settled' = Reject(settled, "zip")
    /\ settleCalls' = settleCalls + 1
    /\ zpc' = "closed"
    /\ UNCHANGED <<archive, requested, delivered, found, endReached, exceptZipVars>>

\* openReadStream calls back with an error
StreamOpenFails ==
    /\ zpc = "openingStream"
    /\ settled' = Reject(settled, "read")
    /\ settleCalls' = settleCalls + 1
    /\ zpc' = "closed"
    /\ UNCHANGED <<archive, requested, delivered, found, endReached, exceptZipVars>>

\* openReadStream calls back with the stream
StreamOpens ==
    /\ zpc = "openingStream"
    /\ zpc' = "streaming"
    /\ UNCHANGED <<archive, requested, delivered, found, endReached, settleCalls, settled,
                   exceptZipVars>>

\* the 'end' handler of the stream, the temp file written
StreamEnds ==
    /\ zpc = "streaming"
    /\ settled' = Resolve(settled, archive[delivered].content)
    /\ settleCalls' = settleCalls + 1
    /\ zpc' = "closed"
    /\ UNCHANGED <<archive, requested, delivered, found, endReached, exceptZipVars>>

\* the 'end' handler of the stream, mkdir or writeFile of the temp file rejecting
StreamEndsWriteFails ==
    /\ zpc = "streaming"
    /\ settled' = Reject(settled, "extract")
    /\ settleCalls' = settleCalls + 1
    /\ zpc' = "closed"
    /\ UNCHANGED <<archive, requested, delivered, found, endReached, exceptZipVars>>

\* the 'error' handler of the stream
StreamError ==
    /\ zpc = "streaming"
    /\ settled' = Reject(settled, "stream")
    /\ settleCalls' = settleCalls + 1
    /\ zpc' = "closed"
    /\ UNCHANGED <<archive, requested, delivered, found, endReached, exceptZipVars>>

ZipNext ==
    \/ OpenFails
    \/ OpenSucceeds
    \/ OnEntry
    \/ OnEnd
    \/ OnZipError
    \/ StreamOpenFails
    \/ StreamOpens
    \/ StreamEnds
    \/ StreamEndsWriteFails
    \/ StreamError

(***************************************************************************)
(* The commands of the simple command line: list, show-json, export,       *)
(* organize and full, with the git check of git-utils and the temporary    *)
(* file of the ZIP handler.  process.exit ends the process where it is     *)
(* called: no finally block runs after it.                                 *)
(***************************************************************************)
\* the most lines of git status --porcelain
MaxStatusLines == 2

\* the two status characters of a porcelain line: "??", " M", "M ", " D", "R ", "A "
StatusCodes ==
    { <<63, 63>>, <<Ch.sp, 77>>, <<77, Ch.sp>>, <<Ch.sp, 68>>, <<82, Ch.sp>>, <<65, Ch.sp>> }

Untracked == <<63, 63>>

\* the output directory: not a repository, or a repository with its status
Repos ==
    { [isRepo |-> FALSE, status |-> <<>>] }
        \cup { [isRepo |-> TRUE, status |-> st] :
                 st \in UNION { [1..n -> StatusCodes] : n \in 0..MaxStatusLines } }

RECURSIVE porcelain(_)
\* the stdout of git status --porcelain: a line "XY f" for each status
porcelain(status) ==
    IF status = <<>> THEN <<>>
    ELSE status[1] \o <<Ch.sp, 102, Ch.nl>> \o porcelain(Tail(status))

RECURSIVE Split(_, _)
\* String.prototype.split on one character
Split(str, sep) ==
    IF \E i \in 1..Len(str) : str[i] = sep
    THEN LET i == CHOOSE i \in 1..Len(str) : str[i] = sep /\ \A j \in 1..(i - 1) : str[j] # sep
         IN  <<SubSeq(str, 1, i - 1)>> \o Split(SubSeq(str, i + 1, Len(str)), sep)
    ELSE <<str>>

\* String.prototype.split('\n')
SplitLines(str) == Split(str, Ch.nl)

\* the filter of checkForUncommittedChanges on the two status characters alone
isModifiedLine_IndexOnly(line) ==
    /\ Len(line) >= 2
    /\ SubSeq(line, 1, 2) # Untracked
    /\ line[1] # Ch.sp

\* the filter of checkForUncommittedChanges: a line that is not untracked
isModifiedLine(line) ==
    /\ Len(line) >= 2
    /\ SubSeq(line, 1, 2) # Untracked
    /\ Len(Trim(SubSeq(line, 1, 2))) > 0

\* checkForUncommittedChanges: TRUE when it returns a message
checkForUncommittedChanges(directory) ==
    IF ~directory.isRepo THEN FALSE
    ELSE LET statusLines == Trim(porcelain(directory.status))
         IN  /\ Len(statusLines) > 0
             /\ \E i \in 1..Len(SplitLines(statusLines)) : isModifiedLine(SplitLines(statusLines)[i])

CommandNames == {"list", "show-json", "export", "organize", "full"}

\* the commands that take --git
GitCommands == {"export", "organize", "full"}

\* the commands whose action keeps cleanup and calls it in a finally block
CleanupCommands == {"show-json", "export"}

\* the commands whose action assigns cleanup
AssigningCommands == {"list", "show-json", "export"}

Commands ==
    { c \in [name : CommandNames, git : BOOLEAN, zip : BOOLEAN] :
        c.git => c.name \in GitCommands }

\* what a command writes below the output directory, in order
artefacts(name) ==
    CASE name = "export" -> <<"chats">>
      [] name = "organize" -> <<"chats", "projects">>
      [] name = "full" -> <<"chat-list.md", "chats", "projects">>
      [] OTHER -> <<>>

NoCommand == [name |-> "none", git |-> FALSE, zip |-> FALSE]

CommandsIdle ==
    /\ command = NoCommand
    /\ repo = [isRepo |-> FALSE, status |-> <<>>]
    /\ cpc = "idle"
    /\ outputFiles = {}
    /\ tempFile = FALSE
    /\ cleanup = FALSE
    /\ committed = FALSE
    /\ exitCode = -1
    /\ stoppedBy = "none"

CommandsInit ==
    /\ command \in Commands
    /\ repo \in Repos
    /\ cpc = "start"
    /\ outputFiles = {}
    /\ tempFile = FALSE
    /\ cleanup = FALSE
    /\ committed = FALSE
    /\ exitCode = -1
    /\ stoppedBy = "none"

\* export, organize and full: the git check that opens the action
CheckGit ==
    /\ cpc = "start"
    /\ command.name \in GitCommands
    /\ IF command.git /\ checkForUncommittedChanges(repo)
       THEN /\ cpc' = "exited"
            /\ exitCode' = 1
            /\ stoppedBy' = "git"
       ELSE /\ cpc' = "checked"
            /\ UNCHANGED <<exitCode, stoppedBy>>
    /\ UNCHANGED <<command, repo, outputFiles, tempFile, cleanup, committed, exceptCommandVars>>

\* the action is about to call loadExportFile
AtLoad ==
    \/ cpc = "checked"
    \/ cpc = "start" /\ command.name \notin GitCommands

\* loadExportFile: loadExportContent rejects; the catch block exits
LoadContentFails ==
    /\ AtLoad
    /\ cpc' = "exited"
    /\ exitCode' = 1
    /\ stoppedBy' = "error"
    /\ UNCHANGED <<command, repo, outputFiles, tempFile, cleanup, committed, exceptCommandVars>>

\* loadExportFile: the content is read, from a ZIP through a temporary file,
\* and JSON.parse or the parser throws; the catch block exits
LoadParseFails ==
    /\ AtLoad
    /\ tempFile' = command.zip
    /\ cpc' = "exited"
    /\ exitCode' = 1
    /\ stoppedBy' = "error"
    /\ UNCHANGED <<command, repo, outputFiles, cleanup, committed, exceptCommandVars>>

\* loadExportFile returns the conversations and the cleanup function
LoadSucceeds ==
    /\ AtLoad
    /\ tempFile' = command.zip
    /\ cleanup' = (command.name \in AssigningCommands)
    /\ cpc' = "loaded"
    /\ UNCHANGED <<command, repo, outputFiles, committed, exitCode, stoppedBy, exceptCommandVars>>

\* the finally block of the action, where it has one
Finally(file) == IF command.name \in CleanupCommands /\ cleanup THEN FALSE ELSE file

\* the rest of the action runs to its end; handleGitOperations commits or fails
WorkSucceeds ==
    /\ cpc = "loaded"
    /\ outputFiles' = outputFiles \cup {artefacts(command.name)[i] : i \in 1..Len(artefacts(command.name))}
    /\ \E done \in BOOLEAN : committed' = (command.git /\ done)
    /\ tempFile' = Finally(tempFile)
    /\ cpc' = "done"
    /\ exitCode' = 0
    /\ UNCHANGED <<command, repo, cleanup, stoppedBy, exceptCommandVars>>

\* show-json finds no chat with embedded JSON and returns
WorkReturnsEarly ==
    /\ cpc = "loaded"
    /\ command.name = "show-json"
    /\ tempFile' = Finally(tempFile)
    /\ cpc' = "done"
    /\ exitCode' = 0
    /\ UNCHANGED <<command, repo, outputFiles, cleanup, committed, stoppedBy, exceptCommandVars>>

\* a write of the action rejects after k of its artefacts; the catch block exits
WorkFails ==
    /\ cpc = "loaded"
    /\ \E k \in 0..Len(artefacts(command.name)) :
          outputFiles' = outputFiles \cup {artefacts(command.name)[i] : i \in 1..k}
    /\ cpc' = "exited"
    /\ exitCode' = 1
    /\ stoppedBy' = "error"
    /\ UNCHANGED <<command, repo, tempFile, cleanup, committed, exceptCommandVars>>

CommandsNext ==
    \/ CheckGit
    \/ LoadContentFails
    \/ LoadParseFails
    \/ LoadSucceeds
    \/ WorkSucceeds
    \/ WorkReturnsEarly
    \/ WorkFails

(***************************************************************************)
(* chat-exporter: exportAllChats, the file name of exportChatToMarkdown    *)
(* and sanitizeTitle.  A date is the number of its day.                    *)
(***************************************************************************)
\* the most conversations of one export
MaxChats == 2

\* the day Date.now() falls on
ExportClock == [today |-> 2]

\* \w
IsWordChar(c) ==
    \/ c >= 97 /\ c <= 122
    \/ c >= 65 /\ c <= 90
    \/ c >= Ch.zero /\ c <= Ch.zero + 9
    \/ c = 95

\* [\w\s-]
IsTitleChar(c) == IsWordChar(c) \/ IsSpace(c) \/ c = Ch.dash

RECURSIVE SpacesToHyphens(_)
\* replace(/\s+/g, '-')
SpacesToHyphens(str) ==
    IF str = <<>> THEN <<>>
    ELSE IF IsSpace(Head(str))
    THEN <<Ch.dash>> \o SpacesToHyphens(TrimLeft(str))
    ELSE <<Head(str)>> \o SpacesToHyphens(Tail(str))

RECURSIVE CollapseHyphens(_)
\* replace(/-+/g, '-')
CollapseHyphens(str) ==
    IF Len(str) < 2 THEN str
    ELSE IF str[1] = Ch.dash /\ str[2] = Ch.dash THEN CollapseHyphens(Tail(str))
    ELSE <<Head(str)>> \o CollapseHyphens(Tail(str))

RECURSIVE JoinHyphens(_)
\* Array.prototype.join('-')
JoinHyphens(words) ==
    IF words = <<>> THEN <<>>
    ELSE IF Len(words) = 1 THEN words[1]
    ELSE words[1] \o <<Ch.dash>> \o JoinHyphens(Tail(words))

\* 'the', 'and', 'for', 'with', 'from', 'about'
CommonWords ==
    { <<116, 104, 101>>, <<97, 110, 100>>, <<102, 111, 114>>, <<119, 105, 116, 104>>,
      <<102, 114, 111, 109>>, <<97, 98, 111, 117, 116>> }

\* the filter of the aggressive branch
IsKeptWord(word) == Len(word) > 2 /\ word \notin CommonWords

\* "untitled"
UntitledText == <<117, 110, 116, 105, 116, 108, 101, 100>>

\* sanitizeTitle(title, aggressive)
sanitizeTitle(title, aggressive) ==
    LET sanitized == Trim(CollapseHyphens(SpacesToHyphens(SelectSeq(toLowerCase(title), IsTitleChar))))
        words == SelectSeq(Split(sanitized, Ch.dash), IsKeptWord)
        limited == JoinHyphens(SubSeq(words, 1, IF Len(words) < 8 THEN Len(words) ELSE 8))
        out == IF aggressive THEN limited ELSE sanitized
    IN  IF out = <<>> THEN UntitledText ELSE out

\* the day of new Date(conversation.messages[0]?.timestamp || Date.now());
\* firstDay is 0 for a conversation without messages
dateStr(conversation) ==
    IF conversation.firstDay = 0 THEN ExportClock.today ELSE conversation.firstDay

\* the file name of exportChatToMarkdown, without its ".md": the day and the
\* sanitized title
chatFilename(conversation) ==
    [date |-> dateStr(conversation),
     title |-> sanitizeTitle(IF conversation.title = <<>> THEN UntitledText ELSE conversation.title,
                             TRUE)]

\* the titles: "New chat", "Chat", "The chat!", "Plan B" and ""
ChatTitles ==
    { <<78, 101, 119, Ch.sp, 99, 104, 97, 116>>,
      <<67, 104, 97, 116>>,
      <<84, 104, 101, Ch.sp, 99, 104, 97, 116, 33>>,
      <<80, 108, 97, 110, Ch.sp, 66>>,
      <<>> }

\* conversation i of a list has id i
ChatLists ==
    UNION { { [i \in 1..n |-> [id |-> i, title |-> pick[i][1], firstDay |-> pick[i][2]]] :
                pick \in [1..n -> ChatTitles \X {0, 1, 2}] }
            : n \in 0..MaxChats }

ChatsIdle ==
    /\ chats = <<>>
    /\ chpc = "idle"
    /\ chatIdx = 1
    /\ chatFiles = {}
    /\ exportedFiles = <<>>

\* exportAllChats is called on an empty output directory
ChatsInit ==
    /\ chats \in ChatLists
    /\ chpc = "exporting"
    /\ chatIdx = 1
    /\ chatFiles = {}
    /\ exportedFiles = <<>>

\* one iteration of the loop: exportChatToMarkdown writes the file
ExportChat ==
    /\ chpc = "exporting"
    /\ chatIdx <= Len(chats)
    /\ LET filename == chatFilename(chats[chatIdx])
       IN  /\ chatFiles' = {f \in chatFiles : f.filename # filename}
                               \cup {[filename |-> filename, chat |-> chats[chatIdx].id]}
           /\ exportedFiles' = Append(exportedFiles, filename)
    /\ chatIdx' = chatIdx + 1
    /\ UNCHANGED <<chats, chpc, exceptChatVars>>

\* writeFile of exportChatToMarkdown rejects: exportAllChats rejects
ExportChatRejects ==
    /\ chpc = "exporting"
    /\ chatIdx <= Len(chats)
    /\ chpc' = "failed"
    /\ UNCHANGED <<chats, chatIdx, chatFiles, exportedFiles, exceptChatVars>>

\* the loop is over: exportAllChats returns
ExportAllReturns ==
    /\ chpc = "exporting"
    /\ chatIdx > Len(chats)
    /\ chpc' = "done"
    /\ UNCHANGED <<chats, chatIdx, chatFiles, exportedFiles, exceptChatVars>>

ChatsNext ==
    \/ ExportChat
    \/ ExportChatRejects
    \/ ExportAllReturns

\* the state of the utilities before any of them is called
ToolsIdle == FilesIdle /\ ZipIdle /\ CommandsIdle /\ ChatsIdle

(***************************************************************************)
(* Specifications                                                          *)
(***************************************************************************)
vars == <<importVars, dedupVars, outputVars>>

ImportIdle ==
    /\ raw = BlankExport
    /\ pc = "idle"
    /\ idx = 1
    /\ tried = <<>>
    /\ validation = NoValidation
    /\ parser = "none"
    /\ result = NoResult

\* the import of one export: detection, validation and parsing
Init == ImportInit /\ DedupIdle /\ ProjectsIdle /\ ExportIdle /\ ToolsIdle

Next == ImportNext

Spec == Init /\ [][Next]_vars

\* the deduplication stage over one list of conversations
InitDedup == ImportIdle /\ DedupInit /\ ProjectsIdle /\ ExportIdle /\ ToolsIdle

NextDedup == DedupNext

SpecDedup == InitDedup /\ [][NextDedup]_vars

\* an export of valid entries only, validated by its adapter, is damaged entry by entry
InitConfidence ==
    /\ raw \in Exports
    /\ parser \in {"chatgpt", "claude", "gemini", "perplexity"}
    /\ IsCollectionFor(parser, raw)
    /\ Len(CollectionOf(parser, raw)) >= 1
    /\ ValidCount(parser, raw) = Len(CollectionOf(parser, raw))
    /\ validation = Validate(parser, raw)
    /\ pc = "validated"
    /\ idx = 1
    /\ tried = <<>>
    /\ result = NoResult
    /\ DedupIdle
    /\ ProjectsIdle
    /\ ExportIdle
    /\ ToolsIdle

NextConfidence == \E i \in 1..MaxEntries : \E m \in Malformed : Corrupt(i, m)

SpecConfidence == InitConfidence /\ [][NextConfidence]_vars

\* the project organizer over one list of conversations
InitProjects == ImportIdle /\ DedupIdle /\ ProjectsInit /\ ExportIdle /\ ToolsIdle

NextProjects == ProjectsNext

SpecProjects == InitProjects /\ [][NextProjects]_vars

\* one run of MarkdownExporter.export
InitExport == ImportIdle /\ DedupIdle /\ ProjectsIdle /\ ExportInit /\ ToolsIdle

NextExport == ExportNext

SpecExport == InitExport /\ [][NextExport]_vars

\* calls of FileHandler on one file system
InitFiles ==
    /\ ImportIdle /\ DedupIdle /\ ProjectsIdle /\ ExportIdle
    /\ FilesInit /\ ZipIdle /\ CommandsIdle /\ ChatsIdle

NextFiles == FilesNext

SpecFiles == InitFiles /\ [][NextFiles]_vars

\* one call of extractConversationsFromZip
InitZip ==
    /\ ImportIdle /\ DedupIdle /\ ProjectsIdle /\ ExportIdle
    /\ FilesIdle /\ ZipInit /\ CommandsIdle /\ ChatsIdle

NextZip == ZipNext

SpecZip == InitZip /\ [][NextZip]_vars

\* one run of a command of the simple command line
InitCommands ==
    /\ ImportIdle /\ DedupIdle /\ ProjectsIdle /\ ExportIdle
    /\ FilesIdle /\ ZipIdle /\ CommandsInit /\ ChatsIdle

NextCommands == CommandsNext

SpecCommands == InitCommands /\ [][NextCommands]_vars

\* one call of exportAllChats
InitChats ==
    /\ ImportIdle /\ DedupIdle /\ ProjectsIdle /\ ExportIdle
    /\ FilesIdle /\ ZipIdle /\ CommandsIdle /\ ChatsInit

NextChats == ChatsNext

SpecChats == InitChats /\ [][NextChats]_vars

(***************************************************************************)
(* Properties of the adapters and the detector                             *)
(***************************************************************************)
\* C1: for every adapter, a bulk export of n >= 2 entries of which exactly one is
\* malformed is parsed without an exception and yields no more conversations
\* than the n-1 valid entries (the malformed one is skipped, never aborts).
\* Stated for the exports the adapter's own validate accepts.
C1_OneMalformedEntryIsSkipped ==
    (/\ pc = "done"
     /\ tried = <<>>
     /\ validation.isValid
     /\ IsCollectionFor(parser, raw)
     /\ Len(CollectionOf(parser, raw)) >= 2
     /\ ValidCount(parser, raw) = Len(CollectionOf(parser, raw)) - 1)
    => (~result.threw /\ Len(result.conversations) <= ValidCount(parser, raw))

\* the first adapter, in the order ChatGPT, Claude, Gemini, Perplexity, whose
\* validate returns a confidence above 0.7
ConfidenceAbove07(p) ==
    ~Validate(p, raw).threw /\ RatGreater(Validate(p, raw).confidence, <<7, 10>>)

RegistrationOrder == <<"chatgpt", "claude", "gemini", "perplexity">>

FirstAbove07 ==
    CHOOSE i \in 1..4 : /\ ConfidenceAbove07(RegistrationOrder[i])
                         /\ \A j \in 1..(i - 1) : ~ConfidenceAbove07(RegistrationOrder[j])

\* C3: detectPlatform validates in the order ChatGPT, Claude, Gemini, Perplexity
\* and, when it returns and some adapter's confidence is above 0.7, returns the
\* result of the first such adapter and has run no adapter after it.
C3_FirstAdapterAboveThresholdWins ==
    /\ tried = SubSeq(RegistrationOrder, 1, Len(tried))
    /\ (pc \in {"detected", "done"} /\ tried # <<>>
          /\ \E i \in 1..4 : ConfidenceAbove07(RegistrationOrder[i]))
        => (/\ validation = Validate(RegistrationOrder[FirstAbove07], raw)
            /\ Len(tried) = FirstAbove07)

\* detection returned the earlier adapter although a later one is more confident
C3_Witness ==
    /\ pc = "detected"
    /\ \E i \in 1..4 : \E j \in (i + 1)..4 :
          /\ ConfidenceAbove07(RegistrationOrder[i])
          /\ ConfidenceAbove07(RegistrationOrder[j])
          /\ RatGreater(Validate(RegistrationOrder[j], raw).confidence,
                        Validate(RegistrationOrder[i], raw).confidence)
          /\ validation.platform = RegistrationOrder[i]

\* C4: validate of every adapter returns a result for every decoded JSON value
\* and never throws; what it rejects it reports as isValid = false.
C4_ValidateNeverThrows ==
    pc \in {"validated", "detecting", "detected", "failed"} => ~validation.threw

\* the entries of the parsed collection that carry no native id
GeneratedIdEntries ==
    {i \in 1..Len(raw.chats.items) :
        isValidGeminiChat(raw.chats.items[i]) /\ ~Truthy(raw.chats.items[i].chat_id)}

\* C9: conversations whose (title, creation timestamp) pairs differ are given
\* different generated ids, so ids are unique within one parse.
C9_GeneratedIdsAreUnique ==
    (pc = "done" /\ parser = "gemini" /\ ~result.threw)
    => \A i \in GeneratedIdEntries : \A j \in GeneratedIdEntries :
          (<<raw.chats.items[i].title, raw.chats.items[i].create_time>>
               # <<raw.chats.items[j].title, raw.chats.items[j].create_time>>)
          => parseChat(raw.chats.items[i]).id # parseChat(raw.chats.items[j]).id

\* C10: every conversation parse returns has at least one message.
C10_NoEmptyConversationReturned ==
    (pc = "done" /\ ~result.threw)
    => \A i \in 1..Len(result.conversations) : Len(result.conversations[i].messages) >= 1

\* a parse that returned some conversations and discarded an entry whose
\* mapping holds no message with content
C10_Witness ==
    /\ pc = "done"
    /\ parser = "chatgpt"
    /\ ~result.threw
    /\ Len(result.conversations) >= 1
    /\ \E i \in 1..Len(ChatGPTEntries(raw)) :
          extractMessagesFromMapping(ChatGPTEntries(raw)[i].mapping) = <<>>

\* C8: replacing one more valid entry of a collection by a malformed one strictly
\* lowers the confidence validate reports (whenever validate returns both times).
C8_ConfidenceStrictlyDecreases ==
    [][(pc = "validated" /\ raw' # raw /\ ~validation.threw /\ ~validation'.threw)
         => RatLess(validation'.confidence, validation.confidence)]_vars

(***************************************************************************)
(* Properties of the deduplication stage                                   *)
(***************************************************************************)
\* score(a, b) >= similarityThreshold (0.6) and >= duplicateThreshold (0.8)
AtLeastSimilar(a, b) == Similarity(a, b)[1] * 10 >= 6 * Similarity(a, b)[2]
AtLeastDuplicate(a, b) == Similarity(a, b)[1] * 10 >= 8 * Similarity(a, b)[2]

\* the effective strategy is keep-all (given, or by default)
KeepAllChosen == options.dedupeStrategy \in {"undefined", "keep-all"}

\* C2: with strategy keep-all the conversations handed on to rendering are as
\* many as the input conversations, with groupIterations set or not.
C2_KeepAllIsLossless ==
    (dpc = "done" /\ KeepAllChosen) => Len(finalConversations) = Len(conversations)

\* keep-all with groupIterations ran the deduplication over a list that holds
\* a pair of duplicates and a version chain
C2_Witness ==
    /\ dpc = "done"
    /\ KeepAllChosen
    /\ options.groupIterations
    /\ Len(versionChains) >= 1
    /\ \E i \in 1..Len(conversations) : \E j \in 1..Len(conversations) :
          i # j /\ AtLeastDuplicate(conversations[i], conversations[j])

MembersBefore(k) == UNION {clusters[i].members : i \in 1..(k - 1)}

\* C5: the clustering pass visits the conversations in input order; each cluster
\* is seeded by the first conversation no earlier cluster took and holds exactly
\* the conversations no earlier cluster took whose score with the seed is at
\* least similarityThreshold; clusters never share a conversation, and after
\* the pass every conversation is in exactly one cluster.
C5_GreedySinglePassClustering ==
    /\ assigned = MembersBefore(Len(clusters) + 1)
    /\ \A k \in 1..Len(clusters) :
          /\ clusters[k].seed \in clusters[k].members
          /\ clusters[k].seed < seedIdx
          /\ \A j \in 1..(clusters[k].seed - 1) : j \in MembersBefore(k)
          /\ clusters[k].members =
                {j \in (1..Len(conversations)) \ MembersBefore(k) :
                    AtLeastSimilar(conversations[clusters[k].seed], conversations[j])}
          /\ \A m \in 1..Len(clusters) : m # k =>
                clusters[k].members \cap clusters[m].members = {}
    /\ \A j \in 1..Len(conversations) : j < seedIdx => j \in assigned
    /\ (dpc \in {"applied", "done"} /\ isDeduplicationActive(options))
          => \A j \in 1..Len(conversations) :
                Cardinality({k \in 1..Len(clusters) : j \in clusters[k].members}) = 1

\* a conversation similar to the seeds of two clusters stayed in the earlier one
C5_Witness ==
    /\ dpc = "done"
    /\ \E k \in 1..Len(clusters) : \E m \in (k + 1)..Len(clusters) :
          \E j \in clusters[k].members :
             /\ j # clusters[k].seed
             /\ AtLeastSimilar(conversations[clusters[m].seed], conversations[j])

\* C6: every version chain has at least 2 versions, ordered by timestamp
\* ascending (strictly when the timestamps are distinct), and the version of
\* the i-th element is i; a cluster of one conversation yields no chain and
\* loses no conversation.
C6_VersionChainsAreOrdered ==
    /\ \A c \in 1..Len(dedup.versionChains) :
          LET v == dedup.versionChains[c].versions IN
          /\ Len(v) >= 2
          /\ \A i \in 1..Len(v) : v[i].version = i /\ v[i].timestamp = v[i].conversation.ts
          /\ \A i \in 1..Len(v) : \A j \in (i + 1)..Len(v) :
                /\ v[i].timestamp <= v[j].timestamp
                /\ v[i].conversation.id # v[j].conversation.id
          /\ (\A i \in 1..Len(v) : \A j \in 1..Len(v) :
                  i # j => v[i].timestamp # v[j].timestamp)
                => \A i \in 1..(Len(v) - 1) : v[i].timestamp < v[i + 1].timestamp
    /\ dpc \in {"applied", "done"} =>
          \A k \in 1..Len(clusters) : Cardinality(clusters[k].members) = 1 =>
              /\ \E i \in 1..Len(dedup.keptConversations) :
                    dedup.keptConversations[i].id = clusters[k].seed
              /\ \A c \in 1..Len(dedup.versionChains) :
                    \A i \in 1..Len(dedup.versionChains[c].versions) :
                       dedup.versionChains[c].versions[i].conversation.id # clusters[k].seed

\* a chain of three versions with distinct timestamps whose input order is not
\* their chronological order
C6_Witness ==
    /\ dpc = "done"
    /\ \E c \in 1..Len(versionChains) :
          LET v == versionChains[c].versions IN
          /\ Len(v) = 3
          /\ v[1].timestamp < v[2].timestamp /\ v[2].timestamp < v[3].timestamp
          /\ v[1].conversation.id > v[2].conversation.id

KeptIds == {finalConversations[i].id : i \in 1..Len(finalConversations)}

DuplicateCount(c) ==
    Cardinality({j \in c.members : AtLeastDuplicate(conversations[c.seed], conversations[j])})

\* C7: under keep-latest, of each cluster with at least 2 duplicate-classified
\* members exactly one conversation survives and none of the cluster is later
\* than it; every conversation of any other cluster is kept; the kept
\* conversations stay in input order and duplicatesRemoved counts the dropped.
C7_KeepLatestKeepsTheLast ==
    (dpc = "done" /\ options.dedupeStrategy = "keep-latest") =>
        /\ \A k \in 1..Len(clusters) :
              IF DuplicateCount(clusters[k]) >= 2
              THEN /\ Cardinality(clusters[k].members \cap KeptIds) = 1
                   /\ \A s \in clusters[k].members \cap KeptIds : \A j \in clusters[k].members :
                         conversations[j].ts <= conversations[s].ts
              ELSE clusters[k].members \subseteq KeptIds
        /\ \A i \in 1..Len(finalConversations) :
              /\ finalConversations[i] = conversations[finalConversations[i].id]
              /\ \A j \in (i + 1)..Len(finalConversations) :
                    finalConversations[i].id < finalConversations[j].id
        /\ dedup.duplicatesRemoved = Len(conversations) - Len(finalConversations)

\* A and B are duplicates with B after A, C is unrelated: B and C are kept
C7_Witness ==
    /\ dpc = "done"
    /\ options.dedupeStrategy = "keep-latest"
    /\ Len(conversations) = 3
    /\ AtLeastDuplicate(conversations[1], conversations[2])
    /\ conversations[1].ts < conversations[2].ts
    /\ ~AtLeastSimilar(conversations[1], conversations[3])
    /\ ~AtLeastSimilar(conversations[2], conversations[3])
    /\ finalConversations = <<conversations[2], conversations[3]>>
    /\ dedup.duplicatesRemoved = 1

(***************************************************************************)
(* Wire shapes, message extraction and timestamps                          *)
(***************************************************************************)
\* a node of a fixture: a message with an author, a creation time that has a
\* Date and string parts that are not blank
CompleteNode(node) ==
    /\ node.hasMessage /\ node.hasContent /\ node.role # "undef"
    /\ node.parts.t = "arr" /\ Len(node.parts.items) >= 1
    /\ \A i \in 1..Len(node.parts.items) :
          node.parts.items[i].t = "str" /\ Trim(node.parts.items[i].v) # <<>>
    /\ node.create_time.t = "num" /\ node.create_time.v[1] >= 0

CompleteMapping(mapping) ==
    /\ mapping.t = "obj" /\ Len(mapping.nodes) >= 1
    /\ \A i \in 1..Len(mapping.nodes) : CompleteNode(mapping.nodes[i])

CompleteChatGPTEntry(e) ==
    /\ e.kind = "obj" /\ IsString(e.title) /\ Truthy(e.title)
    /\ e.create_time.t = "num" /\ e.create_time.v[1] >= 0
    /\ CompleteMapping(e.mapping)

\* the three ChatGPT wire shapes, every entry complete
ChatGPTFixture(data) ==
    \/ data.kind = "obj" /\ data.conversations.t # "arr" /\ CompleteMapping(data.mapping)
    \/ /\ data.kind = "arr" /\ Len(data.items) >= 1
       /\ \A i \in 1..Len(data.items) : CompleteChatGPTEntry(data.items[i])
    \/ /\ data.kind = "obj" /\ data.conversations.t = "arr" /\ Len(data.conversations.items) >= 1
       /\ \A i \in 1..Len(data.conversations.items) :
             CompleteChatGPTEntry(data.conversations.items[i])

\* the two Claude wire shapes, every entry valid and with a message
ClaudeFixture(data) ==
    \/ /\ data.kind = "obj" /\ data.conversations.t = "arr" /\ Len(data.conversations.items) >= 1
       /\ \A i \in 1..Len(data.conversations.items) :
             /\ isValidClaudeConversation(data.conversations.items[i])
             /\ Len(data.conversations.items[i].messages.items) >= 1
    \/ /\ data.kind = "arr" /\ Len(data.items) >= 1
       /\ \A i \in 1..Len(data.items) :
             /\ isValidNewClaudeConversation(data.items[i])
             /\ Len(data.items[i].chat_messages.items) >= 1

IsWireFixture(p, data) ==
    \/ p = "chatgpt" /\ ChatGPTFixture(data)
    \/ p = "claude" /\ ClaudeFixture(data)

FixtureEntries(data) ==
    IF data.kind = "arr" THEN Len(data.items)
    ELSE IF data.conversations.t = "arr" THEN Len(data.conversations.items)
    ELSE 1

IsSingleConversation(data) ==
    data.kind = "obj" /\ data.conversations.t # "arr" /\ data.mapping.t = "obj"

\* the messages of the one conversation parse returned for a single conversation
ResultMessages ==
    IF result.conversations = <<>> THEN <<>> ELSE result.conversations[1].messages

\* a node carries a message that is not empty
CarriesMessage(node) ==
    /\ node.hasMessage /\ node.hasContent /\ node.parts.t = "arr"
    /\ \E i \in 1..Len(node.parts.items) : PartHasContent(node.parts.items[i])

\* C12: for every mapping, in whatever order its nodes come, every node that
\* carries a non-empty message is extracted and the normalized timestamps of
\* the messages are non-decreasing along the conversation.
C12_MessagesInCreationOrder ==
    (pc = "done" /\ parser = "chatgpt" /\ IsSingleConversation(raw) /\ ~result.threw)
    => /\ Len(ResultMessages) = CountWhere(raw.mapping.nodes, CarriesMessage)
       /\ \A i \in 1..Len(ResultMessages) : \A j \in (i + 1)..Len(ResultMessages) :
             ResultMessages[i].timestamp <= ResultMessages[j].timestamp

\* C13: no message of a conversation the ChatGPT adapter returns has empty or
\* whitespace-only content.
C13_NoBlankContent ==
    (pc = "done" /\ parser = "chatgpt" /\ ~result.threw)
    => \A c \in 1..Len(result.conversations) :
          \A i \in 1..Len(result.conversations[c].messages) :
             Trim(result.conversations[c].messages[i].content) # <<>>

\* C14: normalizeTimestamp returns for every value an adapter passes to it, so
\* the parse of a single conversation with a mapping never throws.
C14_TimestampNeverFails ==
    (pc = "done" /\ parser = "chatgpt" /\ IsSingleConversation(raw))
    => /\ \A i \in 1..Len(raw.mapping.nodes) :
             NodeKept(raw.mapping.nodes[i])
             => ~normalizeTimestamp(TimeOrNow(raw.mapping.nodes[i].create_time)).threw
       /\ ~result.threw

\* none of the keys mapping / conversations / chats / threads is present
NoPlatformKey(data) ==
    \/ data.kind # "obj"
    \/ /\ data.mapping.t # "obj" /\ data.conversations.t # "arr"
       /\ data.chats.t # "arr" /\ data.threads.t # "arr"

\* no adapter's validate throws on the export, and none clears the 0.7 bar
NoAdapterClears(data) ==
    \A i \in 1..Len(PARSERS) :
       ~Validate(PARSERS[i], data).threw /\ ~ClearsThreshold(Validate(PARSERS[i], data))

\* C15: when no adapter clears the 0.7 bar, detectPlatform returns the result
\* of the structural sniff, which is {isValid: false, platform: 'unknown'} when
\* none of the four keys is present, and it does not throw, for objects,
\* arrays, null and primitives alike.
C15_DetectFallsBackAndNeverThrows ==
    (NoAdapterClears(raw) /\ tried # <<>> /\ pc \notin {"loaded", "detecting"})
    => /\ pc # "failed"
       /\ ~validation.threw
       /\ validation = BaseDetectPlatform(raw)
       /\ NoPlatformKey(raw) => (~validation.isValid /\ validation.platform = "unknown")

C17_ProjectsMeetMinConversations ==
    \A p \in 1..Len(projects) :
        LET ids == projects[p].conversations
        IN /\ Len(ids) >= orgOptions.minConversations
           /\ orgOptions.minConversations = 2 =>
                 \E k \in 2..Len(ids) :
                     /\ ids[k] # ids[1]
                     /\ Cardinality(commonKeywords(orgConversations, ids[1], ids[k]))
                            >= orgOptions.keywordThreshold

\* detection has returned a project under the default minimum and left a
\* conversation that matched no other one outside every project
C17_Witness ==
    /\ opc = "organizing"
    /\ orgOptions = [keywordThreshold |-> 3, minConversations |-> 2]
    /\ Len(projects) >= 1
    /\ \E i \in 1..Len(orgConversations) :
           /\ orgConversations[i].id \notin assignedIds(projects)
           /\ Len(related(orgConversations, i, {}, orgOptions)) = 1

\* the unassigned report as it stands on disk
UnassignedReport == {f \in disk : f.dir = <<>> /\ f.file = "unassigned.md"}

InSomeProject(id) ==
    \E p \in 1..Len(projects) : \E k \in 1..Len(projects[p].conversations) :
        projects[p].conversations[k] = id

\* C18: once autoDetectProjects and then organizeIntoProjects have returned,
\* every conversation handed in is a member of some project or is listed in
\* unassigned.md, and unassigned.md lists exactly the conversations that are
\* in no project (it is not written when there is none).
C18_NoConversationDropped ==
    opc = "done" =>
        LET IsLeft(c) == ~InSomeProject(c.id)
            left == SelectSeq(orgConversations, IsLeft)
        IN /\ \A i \in 1..Len(orgConversations) :
                  \/ InSomeProject(orgConversations[i].id)
                  \/ \E f \in UnassignedReport : \E k \in 1..Len(f.ids) :
                         f.ids[k] = orgConversations[i].id
           /\ IF left = <<>> THEN UnassignedReport = {}
              ELSE UnassignedReport =
                       {[dir |-> <<>>, file |-> "unassigned.md",
                         ids |-> [k \in 1..Len(left) |-> left[k].id]]}

\* the organizer has returned with a project on disk and a report of the
\* conversations left over
C18_Witness ==
    /\ opc = "done"
    /\ Len(projects) >= 1
    /\ \E f \in disk : f.file = "conversations.md"
    /\ \E f \in UnassignedReport : Len(f.ids) >= 1

(***************************************************************************)
(* Properties of the exporter                                              *)
(***************************************************************************)
\* the files (directories apart) export writes for project p
FilesOfProject(p) ==
    LET calls == exportCalls(expConversations, classifications, exportOptions)
    IN {calls[k] : k \in {j \in 1..Len(calls) : calls[j].project = p /\ ~calls[j].isDir}}

\* C19: whenever an export run has ended, by returning or because a write
\* failed, each version chain and each project has either all of its files
\* (version and conversation files, README or version history) on disk or
\* none of them.
C19_WritesAtomicPerProject ==
    (epc \in {"done", "failed"} /\ organization(exportOptions) \in {"chains", "project"}) =>
        \A p \in 1..Len(organize(expConversations, classifications, exportOptions)) :
            \/ FilesOfProject(p) \subseteq outputDir
            \/ FilesOfProject(p) \cap outputDir = {}

\* the conversations no classification calls writing
NonWriting(conv) ==
    \A k \in 1..Len(classifications) :
        classifications[k].id = conv.id => ~classifications[k].isWriting

\* C20: the summary export returns counts every conversation handed in as
\* totalConversations and every classification with isWriting as
\* writingConversations; a conversation classified as not writing is in no
\* project of the summary; and for no conversations and no classifications
\* the summary has 0, 0 and no project, whatever the organization.
C20_SummaryCountsWritingOnly ==
    epc = "done" =>
        /\ summary.totalConversations = Len(expConversations)
        /\ summary.writingConversations =
               Cardinality({k \in 1..Len(classifications) : classifications[k].isWriting})
        /\ \A i \in 1..Len(expConversations) :
               NonWriting(expConversations[i]) =>
                   \A p \in 1..Len(summary.projects) :
                       \A m \in 1..Len(summary.projects[p].conversations) :
                           summary.projects[p].conversations[m] # expConversations[i]
        /\ (expConversations = <<>> /\ classifications = <<>>) =>
               /\ summary.totalConversations = 0
               /\ summary.writingConversations = 0
               /\ summary.projects = <<>>

(***************************************************************************)
(* Further properties of the project organizer                             *)
(***************************************************************************)
MemberIds(p) == {projects[p].conversations[k] : k \in 1..Len(projects[p].conversations)}

\* C30: the projects autoDetectProjects holds are pairwise disjoint: no id is
\* a member of two projects, an assigned conversation neither seeds nor joins
\* a later project, and only the members of pushed projects are assigned, so
\* the candidates of a seed that did not reach minConversations stay free.
C30_ProjectsPairwiseDisjoint ==
    /\ \A p \in 1..Len(projects) : \A q \in 1..Len(projects) :
           p # q => MemberIds(p) \cap MemberIds(q) = {}
    /\ orgAssigned = UNION {MemberIds(p) : p \in 1..Len(projects)}

\* detection returned two projects, passed over a conversation that was
\* already assigned, and the second project's seed had an assigned
\* conversation among those sharing enough keywords with it
C30_Witness ==
    /\ opc = "organizing"
    /\ Len(projects) = 2
    /\ \E i \in 1..Len(orgConversations) :
           /\ orgConversations[i].id \in MemberIds(1)
           /\ orgConversations[i].id # projects[1].conversations[1]
    /\ \E i \in 1..Len(orgConversations) :
           /\ orgConversations[i].id = projects[2].conversations[1]
           /\ Len(related_IgnoresAssigned(orgConversations, i, {}, orgOptions))
                  > Len(projects[2].conversations)

(***************************************************************************)
(* Further properties of the exporter                                      *)
(***************************************************************************)
RECURSIVE SumOfCounts(_)
SumOfCounts(projs) ==
    IF projs = <<>> THEN 0
    ELSE Len(projs[1].conversations) + SumOfCounts(Tail(projs))

\* every conversation of every chain handed to export is classified as writing
ChainsHoldWritingOnly ==
    \A c \in 1..Len(exportOptions.versionChains) :
        \A k \in 1..Len(exportOptions.versionChains[c].classifications) :
            exportOptions.versionChains[c].classifications[k].isWriting

\* C26: every conversation handed to export with a classification that has
\* isWriting is in some project of the summary, so the projects' conversation
\* counts add up to summary.writingConversations; this includes, when a
\* version chain exists, the conversations that belong to no chain.  Stated
\* for chains that hold writing conversations only.
C26_EveryKeptConversationExported ==
    (epc = "done" /\ ChainsHoldWritingOnly) =>
        /\ \A i \in 1..Len(expConversations) :
               classifications[i].isWriting =>
                   \E p \in 1..Len(summary.projects) :
                       \E m \in 1..Len(summary.projects[p].conversations) :
                           summary.projects[p].conversations[m] = expConversations[i]
        /\ SumOfCounts(summary.projects) = summary.writingConversations

(***************************************************************************)
(* Further properties of the adapters                                      *)
(***************************************************************************)
\* C28: for every adapter, whenever parse returns, metadata.totalConversations
\* is the length of the conversations list returned, the one left after the
\* invalid entries and the conversations without messages are removed.
C28_TotalMatchesReturnedList ==
    (pc = "done" /\ ~result.threw) =>
        result.totalConversations = Len(result.conversations)

\* C27: for every export that the key tests of loadExportFile and the
\* registry's detectPlatform both accept, the adapter loadExportFile chooses is
\* the platform detectPlatform returns.
C27_DetectionRoutesAgree ==
    (/\ pc = "simple"
     /\ ~sniffPlatform(raw).threw
     /\ ~detectPlatform(raw).threw
     /\ detectPlatform(raw).isValid)
    => parser = detectPlatform(raw).platform

(***************************************************************************)
(* Properties of FileHandler                                               *)
(***************************************************************************)
\* the last writeFile call was made on a path that held a file
WroteExisting ==
    /\ lastWrite.path # <<>>
    /\ \E f \in lastWrite.before : f.path = resolve(lastWrite.path)

\* the files the last writeFile call created
CreatedFiles == {f \in fsFiles : ~\E g \in lastWrite.before : g.path = f.path}

\* the last writeFile call left every file but its target as it was
OthersKept ==
    \A g \in lastWrite.before : g.path # resolve(lastWrite.path) => g \in fsFiles

\* C21: a writeFile call on a path that already holds a file fails and leaves
\* the file system unchanged when overwrite is not set, also when
\* backupExisting is set; with overwrite set the file holds the new content
\* afterwards, and with backupExisting set as well the call creates exactly
\* one backup file, which holds the previous content, and changes no other file.
C21_WriteOnExistingPath ==
    WroteExisting =>
        IF ~lastWrite.options.overwrite
        THEN /\ lastWrite.threw
             /\ fsFiles = lastWrite.before
             /\ fsDirs = lastWrite.dirsBefore
        ELSE /\ ~lastWrite.threw
             /\ ContentAt(fsFiles, resolve(lastWrite.path)) = lastWrite.content
             /\ OthersKept
             /\ IF lastWrite.options.backupExisting
                THEN \E f \in CreatedFiles :
                        /\ CreatedFiles = {f}
                        /\ f.content = ContentAt(lastWrite.before, resolve(lastWrite.path))
                ELSE CreatedFiles = {}

\* C24: validateOutputPath throws exactly for the paths that resolve to one of
\* /bin, /etc, /usr, /sys, /proc, /var or to a path inside one of them.
InsideSystemDirectory(p) ==
    \E i \in 1..Len(dangerous) : p = dangerous[i] \/ StartsWith(p, dangerous[i] \o <<Ch.slash>>)

C24_ThrowsExactlyForSystemPaths ==
    checked.path # <<>> => (checked.threw <=> InsideSystemDirectory(resolve(checked.path)))

(***************************************************************************)
(* Properties of the ZIP handler                                           *)
(***************************************************************************)
\* the lower-cased name of entry i ends with "conversations.json"
NameMatches(i) ==
    LET name == toLowerCase(archive[i].fileName)
        n == Len(ConversationsJson)
    IN  /\ Len(name) >= n
        /\ \A k \in 1..n : name[Len(name) - n + k] = ConversationsJson[k]

\* the position of the first matching entry; one past the end when there is none
FirstMatch ==
    IF \E i \in 1..Len(archive) : NameMatches(i)
    THEN CHOOSE i \in 1..Len(archive) : NameMatches(i) /\ \A j \in 1..(i - 1) : ~NameMatches(j)
    ELSE Len(archive) + 1

\* C25: extractConversationsFromZip settles exactly once: resolve or reject is
\* called at most once and has been called when the extraction is over;
\* entries are requested one at a time in archive order and none after the
\* first entry whose lower-cased name ends with "conversations.json"; the
\* promise resolves only with the content of that entry; it is rejected as
\* "not found" exactly when the end of the archive was reached, which happens
\* only without such an entry; after an error of the archive or of the stream
\* it is rejected.
C25_ZipSettlesOnceWithFirstMatch ==
    /\ settleCalls <= 1
    /\ settleCalls = 0 <=> settled.state = "pending"
    /\ zpc = "closed" => settled.state # "pending"
    /\ delivered <= requested /\ requested <= delivered + 1
    /\ requested <= FirstMatch
    /\ settled.state = "resolved" =>
          /\ FirstMatch <= Len(archive)
          /\ requested = FirstMatch
          /\ settled.content = archive[FirstMatch].content
    /\ (settled.state = "rejected" /\ settled.error = "not found") <=> endReached
    /\ endReached => FirstMatch = Len(archive) + 1 /\ requested = Len(archive) + 1

\* an archive whose second entry is the first match, a third entry behind it,
\* extracted to the end
C25_Witness ==
    /\ Len(archive) = 3
    /\ FirstMatch = 2
    /\ archive[2].fileName # ConversationsJson
    /\ NameMatches(3)
    /\ settled.state = "resolved"
    /\ settled.content = 2

(***************************************************************************)
(* Properties of the commands                                              *)
(***************************************************************************)
\* the output directory is a repository with a change to a tracked file
HasTrackedChange ==
    /\ repo.isRepo
    /\ \E i \in 1..Len(repo.status) : repo.status[i] # Untracked

C22_WitnessUntracked ==
    /\ command.name = "export"
    /\ command.git
    /\ repo.status = <<Untracked>>
    /\ cpc = "done"
    /\ outputFiles # {}

\* C29: when a command of the simple command line has finished, by running to
\* its end, by returning early or by failing, the temporary copy of
\* conversations.json is gone.
C29_TempFileDeletedOnEveryPath ==
    cpc \in {"done", "exited"} => ~tempFile

(***************************************************************************)
(* Properties of the chat exporter                                         *)
(***************************************************************************)
\* C23: when exportAllChats has exported n conversations into an empty
\* directory, the directory holds n conversation files, exportedFiles names n
\* distinct files, and the file of every conversation is still there: no later
\* conversation of the run has overwritten it.
C23_OneFilePerChat ==
    chpc = "done" =>
        /\ Cardinality(chatFiles) = Len(chats)
        /\ Len(exportedFiles) = Len(chats)
        /\ \A i, j \in 1..Len(exportedFiles) : i # j => exportedFiles[i] # exportedFiles[j]
        /\ \A i \in 1..Len(chats) : \E f \in chatFiles : f.chat = chats[i].id

====
